---- MODULE Spec2Model ----
(***************************************************************************)
(* Model of the daemon core of dcyfr-ai-cli.                               *)
(*                                                                         *)
(* The priority task queue (daemon/queue, class TaskQueue) is modelled as  *)
(* a state machine.  JavaScript runs every handler to its next `await`,    *)
(* so one action of the model is one such synchronous run: the call of a   *)
(* public method together with everything it calls before it suspends,    *)
(* or the continuation that runs when an awaited promise settles.  All     *)
(* clock readings of one synchronous run return the same millisecond; the  *)
(* clock advances between runs (action Tick).                              *)
(*                                                                         *)
(* Timestamps: createdAt is written with toISOString() and read back with  *)
(* new Date(s).getTime(); on millisecond integers this pair is the         *)
(* identity, so the model stores the millisecond value.  startedAt and     *)
(* completedAt are written and never read by the queue: a task's status    *)
(* stands for them.                                                        *)
(*                                                                         *)
(* Paths are modelled by their rank in locale order (1 sorts before 2), on *)
(* which String.localeCompare is a strict total order.                     *)
(***************************************************************************)
EXTENDS Integers, Sequences, FiniteSets, TLC

VARIABLES
    config,       \* QueueConfig: maxConcurrent, taskTTL, persist
    queue,        \* TaskQueue.queue: Task[]
    running,      \* TaskQueue.running: Map<scanner, Task>
    completed,    \* TaskQueue.completed: Task[]
    processing,   \* TaskQueue.processing
    awaiting,     \* tasks whose registry.run() promise processNext awaits
    events,       \* every event handed to EventBus.emit, in order
    clock,        \* Date.now()
    nextId,       \* number of ids randomUUID() has produced, plus one
    file,         \* content of .dcyfr/queue.json
    pendingSnap,  \* persistState() calls suspended before the snapshot
    pendingWrite, \* snapshots handed to writeFile and not yet on disk
    restorePc,    \* position of the restore() call of this process
    restoreRaw,   \* state.queue as restore() parsed it from the file
    restoreRet,   \* value the last restore() returned
    epoch,        \* processes that have owned the workspace before this one
    listener,     \* what the listener subscribed to the bus does
    pidFile,      \* content of .dcyfr/daemon.pid
    sup,          \* the supervisor (DaemonProcess) of each process
    scheduler,    \* the Scheduler: its schedules and the enqueue calls it made
    watcher,      \* the FileWatcher: its open batches and the enqueue calls it made
    bus,          \* the EventBus: its subscriptions and the listener calls made
    registry,     \* the ScannerRegistry: its scanners and the runAll in progress
    health,       \* the scan results handed to buildHealthSnapshot and its snapshot
    logs,         \* the daemon's log file, its rotated copies and the appends in flight
    last          \* the step just taken: an enqueue call with its arguments and
                  \* result (idle: the queue was idle when it was made; again:
                  \* it repeats, with no files, the call made just before on an
                  \* idle queue), or something else

vars == <<config, queue, running, completed, processing, awaiting, events,
          clock, nextId, file, pendingSnap, pendingWrite, restorePc,
          restoreRaw, restoreRet, epoch, listener, pidFile, sup, scheduler, watcher,
          bus, registry, health, logs, last>>

----------------------------------------------------------------------------
(* Bounds of the model *)

MaxTasks == 2          \* ids randomUUID() may hand out
MaxFiles == 2          \* longest files argument
SmallTTL == 2          \* the non-zero taskTTL the model configures
MaxTicks == 2          \* clock ticks after start
S2Tasks == 3           \* ids handed out in the priority scenarios
MaxPending == 2        \* persistState() calls in flight at once
MaxCrashes == 1        \* times the process dies and is started again
CrashTasks == 3        \* ids handed out over the lives of those processes
ListenerTasks == 3     \* ids handed out to callers other than the listener
MaxProcs == 2          \* processes started on the workspace; their pids are 1..MaxProcs
MaxSignals == 2        \* termination signals delivered to one process
ShortInterval == 1     \* the interval of the hourly schedules, in clock units
LongInterval == 2      \* the interval of the daily schedules, in clock units
MaxRequests == 2       \* enqueue calls the scheduler makes in a run
MaxSaves == 3          \* calls of saveSchedules in a run
DefaultDebounce == 1    \* config.debounceMs, in clock units
LongDebounce == 2       \* the debounceMs of a rule that sets one, in clock units
WatchTicks == 3         \* clock ticks in a run of the watcher
MaxChanges == 3         \* change events the OS watcher reports in a run
MaxListeners == 2       \* listener functions subscribed to the bus
MaxEmits == 1           \* emit calls in a run of the bus
MaxScanners == 3         \* scanner ids that can be registered
MaxRuns == 1             \* runAll calls in a run of the registry
LogMaxFiles == 2         \* rotated log files kept (maxFiles)
LogMaxSize == 2          \* lines at which the log is rotated (maxSizeBytes)
MaxLines == 3            \* lines handed to appendLog in a run
MaxChecks == 2           \* rotateLogIfNeeded calls in a run
MaxResults == 3          \* scan results handed to buildHealthSnapshot
MaxOns == 3             \* on and onAny calls in a run of the bus

(* Program constants *)

CRITICAL == 0
HIGH == 1
NORMAL == 2
LOW == 3
HISTORY_MAX == 100
HISTORY_KEEP == 50
DEFAULT_MAX_CONCURRENT == 1

Null == 0              \* enqueue's null; task ids are 1, 2, ...
PrevIdBase == 100      \* ids of tasks persisted by an earlier process

ClockStart == 2 * SmallTTL
MaxClock == ClockStart + MaxTicks

Priorities == {CRITICAL, HIGH, NORMAL, LOW}
Registered == {"lint", "docs", "audit"}     \* ids the registry holds
Unregistered == {"ghost"}                   \* an id registry.run rejects
Paths == {1, 2}

NoFiles == [defined |-> FALSE, paths |-> <<>>]      \* files === undefined
FileLists == UNION {[1..n -> Paths] : n \in 0..MaxFiles}
SomeFiles(l) == [defined |-> TRUE, paths |-> l]
FilesArgs == {NoFiles} \cup {SomeFiles(l) : l \in FileLists}

NoError == "none"
ErrNotFound == "Scanner not found"          \* message of registry.run
ErrThrown == "scan threw"                   \* message of a throwing scanner

----------------------------------------------------------------------------
(* Helpers on sequences and maps *)

Last(s) == s[Len(s)]

\* [...a].sort((x, y) => x.localeCompare(y)) on one element more
RECURSIVE InsertPath(_, _)
InsertPath(s, x) ==
    IF s = <<>> THEN <<x>>
    ELSE IF Head(s) <= x THEN <<Head(s)>> \o InsertPath(Tail(s), x)
         ELSE <<x>> \o s

\* [...a].sort((x, y) => x.localeCompare(y))
RECURSIVE SortPaths(_)
SortPaths(s) ==
    IF s = <<>> THEN <<>>
    ELSE InsertPath(SortPaths(SubSeq(s, 1, Len(s) - 1)), Last(s))

\* an unstable sort: x goes before the tasks of its own priority
RECURSIVE InsertTask_Front(_, _)
InsertTask_Front(s, x) ==
    IF s = <<>> THEN <<x>>
    ELSE IF Head(s).priority < x.priority
         THEN <<Head(s)>> \o InsertTask_Front(Tail(s), x)
         ELSE <<x>> \o s

\* where a stable sort by priority leaves task x among the sorted tasks s:
\* after the last task whose priority is <= its own
RECURSIVE InsertTask(_, _)
InsertTask(s, x) ==
    IF s = <<>> THEN <<x>>
    ELSE IF Head(s).priority <= x.priority
         THEN <<Head(s)>> \o InsertTask(Tail(s), x)
         ELSE <<x>> \o s

\* a queue that is never sorted
sortQueue_None(q) == q

\* Array.prototype.sort((a, b) => a.priority - b.priority): stable
RECURSIVE sortQueue(_)
sortQueue(q) ==
    IF q = <<>> THEN <<>>
    ELSE InsertTask(sortQueue(SubSeq(q, 1, Len(q) - 1)), Last(q))

EmptyMap == [x \in {} |-> NoFiles]
MapHas(m, k) == k \in DOMAIN m
MapSet(m, k, v) == [x \in (DOMAIN m) \cup {k} |-> IF x = k THEN v ELSE m[x]]
MapDelete(m, k) == [x \in (DOMAIN m) \ {k} |-> m[x]]
MapSize(m) == Cardinality(DOMAIN m)

----------------------------------------------------------------------------
(* Events, as handed to EventBus.emit(type, data) *)

EvQueued(t) == [type |-> "task:queued", taskId |-> t.id, scanner |-> t.scanner,
                priority |-> t.priority]
EvStarted(t) == [type |-> "task:started", taskId |-> t.id, scanner |-> t.scanner]
EvCompleted(t) == [type |-> "task:completed", taskId |-> t.id, scanner |-> t.scanner]
EvScanCompleted(t) == [type |-> "scan:completed", scanner |-> t.scanner]
EvFailed(t) == [type |-> "task:failed", taskId |-> t.id, scanner |-> t.scanner,
                error |-> t.error]
EvExpired(t) == [type |-> "task:expired", taskId |-> t.id, scanner |-> t.scanner]

\* a listener subscribed with EventBus.on for the event types in `on`; when
\* called it calls enqueue(scanner, 'manual', priority) while fewer than
\* `calls` ids have been handed out
NoListener == [on |-> {}, scanner |-> "", priority |-> NORMAL, calls |-> 0]

----------------------------------------------------------------------------
(* TaskQueue.  The operators below take and return the fields of the queue *)
(* object as a record st: queue, running, completed, processing, awaiting, *)
(* events, pendingSnap, and nextId, the state of randomUUID().             *)

QueueObject == [queue |-> queue, running |-> running, completed |-> completed,
                processing |-> processing, awaiting |-> awaiting,
                events |-> events, pendingSnap |-> pendingSnap, nextId |-> nextId]

\* sameFiles without the two sorts: equal only in the same order
sameFiles_Unsorted(a, b) ==
    IF ~a.defined /\ ~b.defined THEN TRUE
    ELSE IF ~a.defined \/ ~b.defined THEN FALSE
    ELSE a.paths = b.paths

\* sameFiles(a, b): both undefined, or equal after sorting copies of both
sameFiles(a, b) ==
    IF ~a.defined /\ ~b.defined THEN TRUE
    ELSE IF ~a.defined \/ ~b.defined THEN FALSE
    ELSE IF Len(a.paths) # Len(b.paths) THEN FALSE
    ELSE LET sortedA == SortPaths(a.paths)
             sortedB == SortPaths(b.paths)
         IN  \A i \in 1..Len(sortedA) : sortedA[i] = sortedB[i]

\* the isDuplicate test of enqueue: some queued task of the scanner with the same files
isDuplicate(st, scanner, files) ==
    \E i \in 1..Len(st.queue) :
        /\ st.queue[i].scanner = scanner
        /\ st.queue[i].status = "queued"
        /\ sameFiles(st.queue[i].files, files)

\* enqueue without its second test: a running task never makes a duplicate
isRunning_Never(st, scanner, files) == FALSE

\* the isRunning test of enqueue: the scanner's running task has the same files
isRunning(st, scanner, files) ==
    /\ MapHas(st.running, scanner)
    /\ sameFiles(st.running[scanner].files, files)

RECURSIVE enqueue(_, _, _, _, _)

\* EventBus.emit(type, data): the event goes on record and the listeners of
\* its type run, synchronously, before emit returns
emit(st, ev) ==
    LET logged == [st EXCEPT !.events = Append(@, ev)]
    IN  IF ev.type \in listener.on /\ logged.nextId <= listener.calls
        THEN enqueue(logged, listener.scanner, listener.priority, NoFiles, clock).st
        ELSE logged

\* persistState() up to its first await: nothing when persistence is off
persistState(st) ==
    IF ~config.persist THEN st
    ELSE [st EXCEPT !.pendingSnap = @ + 1]

\* a test that lets a task live one millisecond longer
IsStale_Lenient(t, now) ==
    t.status = "queued" /\ now - t.createdAt > config.taskTTL + 1

\* the test of expireStaleTasks (lines 191-193): queued and older than the TTL
IsStale(t, now) == t.status = "queued" /\ now - t.createdAt > config.taskTTL

\* the for...of loop of expireStaleTasks from position i of the array as it
\* is then (lines 190-198): a stale task is marked expired where it stands
\* and task:expired is emitted before the loop goes on to position i + 1
RECURSIVE ExpireFrom(_, _, _)
ExpireFrom(st, i, now) ==
    IF i > Len(st.queue) THEN st
    ELSE IF IsStale(st.queue[i], now)
         THEN LET marked == [st EXCEPT !.queue[i].status = "expired"]
              IN  ExpireFrom(emit(marked, EvExpired(marked.queue[i])), i + 1, now)
         ELSE ExpireFrom(st, i + 1, now)

\* expireStaleTasks(): mark and emit in array order, then filter the queue
expireStaleTasks(st, now) ==
    LET looped == ExpireFrom(st, 1, now)
    IN  [looped EXCEPT !.queue = SelectSeq(@, LAMBDA t : t.status # "expired")]

\* queue.findIndex((t) => t.status === 'queued'), 0 for -1
FindQueued(q) ==
    IF \E i \in 1..Len(q) : q[i].status = "queued"
    THEN CHOOSE i \in 1..Len(q) :
            /\ q[i].status = "queued"
            /\ \A j \in 1..(i - 1) : q[j].status # "queued"
    ELSE 0

RemoveAt(q, i) == SubSeq(q, 1, i - 1) \o SubSeq(q, i + 1, Len(q))

\* a start that lets the finally block run at the await: processing is reset
StartTask_Unlocked(st, taskIndex, now) ==
    LET task == [st.queue[taskIndex] EXCEPT !.status = "running"]
    IN  emit([st EXCEPT !.queue = RemoveAt(st.queue, taskIndex),
                        !.running = MapSet(st.running, task.scanner, task),
                        !.awaiting = @ \cup {task},
                        !.processing = FALSE],
             EvStarted(task))

\* lines 136-141: move the task at taskIndex to running and emit task:started;
\* processNext then suspends on registry.run
StartTask(st, taskIndex, now) ==
    LET task == [st.queue[taskIndex] EXCEPT !.status = "running"]
    IN  emit([st EXCEPT !.queue = RemoveAt(st.queue, taskIndex),
                        !.running = MapSet(st.running, task.scanner, task),
                        !.awaiting = @ \cup {task}],
             EvStarted(task))

\* the while loop of processNext from its head to the next await, or to its
\* exit through the finally block
ExecutorLoop(st, now) ==
    IF Len(st.queue) = 0 THEN [st EXCEPT !.processing = FALSE]
    ELSE LET e == expireStaleTasks(st, now)
             taskIndex == FindQueued(e.queue)
         IN  IF taskIndex = 0 THEN [e EXCEPT !.processing = FALSE]
             ELSE IF MapSize(e.running) >= config.maxConcurrent
                  THEN [e EXCEPT !.processing = FALSE]
                  ELSE StartTask(e, taskIndex, now)

\* processNext() from its call to its first await
processNext(st, now) ==
    IF st.processing THEN st
    ELSE ExecutorLoop([st EXCEPT !.processing = TRUE], now)

NewTask(id, scanner, priority, files, now) ==
    [id |-> id, scanner |-> scanner, priority |-> priority, files |-> files,
     createdAt |-> now, status |-> "queued", error |-> NoError]

\* the body of enqueue after the duplicate tests (lines 91-112)
Accept(st, task, now) ==
    LET pushed == [st EXCEPT !.queue = sortQueue(Append(@, task)),
                             !.nextId = @ + 1]
        saved == persistState(emit(pushed, EvQueued(task)))
    IN  IF ~saved.processing THEN processNext(saved, now) ELSE saved

\* enqueue(scanner, source, priority, files): the queue afterwards and the
\* value returned
enqueue(st, scanner, priority, files, now) ==
    IF isDuplicate(st, scanner, files) THEN [st |-> st, ret |-> Null]
    ELSE IF isRunning(st, scanner, files) THEN [st |-> st, ret |-> Null]
    ELSE [st |-> Accept(st, NewTask(st.nextId, scanner, priority, files, now), now),
          ret |-> st.nextId]

\* a history that keeps its oldest HISTORY_KEEP tasks when it passes the bound
PushCompleted_KeepOldest(hist, task) ==
    LET h == Append(hist, task)
    IN  IF Len(h) > HISTORY_MAX
        THEN SubSeq(h, 1, HISTORY_KEEP)
        ELSE h

\* completed.push(task) with the trim of lines 174-176
PushCompleted(hist, task) ==
    LET h == Append(hist, task)
    IN  IF Len(h) > HISTORY_MAX
        THEN SubSeq(h, Len(h) - HISTORY_KEEP + 1, Len(h))
        ELSE h

\* the task as lines 151-152 or 161-163 leave it: completed, or failed with
\* the message of what was thrown
Outcome(task, ok) ==
    IF ok THEN [task EXCEPT !.status = "completed"]
    ELSE [task EXCEPT !.status = "failed",
                      !.error = IF task.scanner \in Registered
                                THEN ErrThrown ELSE ErrNotFound]

\* a catch block that also reports a scan result
SettleEvents_ScanAlways(done, ok) ==
    IF ok THEN <<EvCompleted(done), EvScanCompleted(done)>>
    ELSE <<EvFailed(done), EvScanCompleted(done)>>

\* the events of lines 153-159 (normal return) or 164-168 (catch)
SettleEvents(done, ok) ==
    IF ok THEN <<EvCompleted(done), EvScanCompleted(done)>>
    ELSE <<EvFailed(done)>>

\* an archive step that forgets running.delete for a failed task
Archive_KeepFailed(st, task, done) ==
    [st EXCEPT !.awaiting = @ \ {task},
               !.running = IF done.status = "failed" THEN @
                           ELSE MapDelete(@, task.scanner),
               !.completed = PushCompleted(@, done)]

\* lines 171-176: leave the running map, join the completion history
Archive(st, task, done) ==
    [st EXCEPT !.awaiting = @ \ {task},
               !.running = MapDelete(@, task.scanner),
               !.completed = PushCompleted(@, done)]

\* the emit calls of one block, in order
RECURSIVE EmitAll(_, _)
EmitAll(st, evs) ==
    IF evs = <<>> THEN st ELSE EmitAll(emit(st, Head(evs)), Tail(evs))

\* processNext resumed when registry.run settles for the task it awaits
\* (lines 151-178), then the loop again
Settle(st, task, ok, now) ==
    LET done == Outcome(task, ok)
        emitted == EmitAll(st, SettleEvents(done, ok))
    IN  ExecutorLoop(persistState(Archive(emitted, task, done)), now)

\* clear()
clear(st) == persistState([st EXCEPT !.queue = <<>>])

\* size()
size(st) == Len(SelectSeq(st.queue, LAMBDA t : t.status = "queued"))

\* the subset persistState serialises (line 234)
Snapshot(st) == SelectSeq(st.queue, LAMBDA t : t.status = "queued")

FileAbsent == [kind |-> "absent", queue |-> <<>>]
FileCorrupt == [kind |-> "corrupt", queue |-> <<>>]
FileOf(q) == [kind |-> "json", queue |-> q]

\* a restore() that re-queues whatever the file holds
Restorable_All(persisted, now) == persisted

\* the loop of restore() (lines 256-264): the persisted tasks it re-queues
Restorable(persisted, now) ==
    SelectSeq(persisted, LAMBDA t : now - t.createdAt < config.taskTTL)

\* restore() once the file is read: parse, re-queue, sort (lines 253-267)
restoreFrom(st, f, now) ==
    IF f.kind # "json" THEN [st |-> st, ret |-> 0]
    ELSE LET kept == Restorable(f.queue, now)
             requeued == [i \in 1..Len(kept) |-> [kept[i] EXCEPT !.status = "queued"]]
         IN  [st |-> [st EXCEPT !.queue = sortQueue(@ \o requeued)],
              ret |-> Len(kept)]

----------------------------------------------------------------------------
(* The state machine *)

\* tasks an earlier process left in queue.json: one far older than any TTL,
\* one a millisecond old when this process starts
PrevOld == [id |-> PrevIdBase + 1, scanner |-> "lint", priority |-> NORMAL,
            files |-> NoFiles, createdAt |-> 0, status |-> "queued",
            error |-> NoError]
PrevFresh == [id |-> PrevIdBase + 2, scanner |-> "docs", priority |-> LOW,
              files |-> NoFiles, createdAt |-> ClockStart - 1, status |-> "queued",
              error |-> NoError]

QueueConfig(m, ttl, p) == [maxConcurrent |-> m, taskTTL |-> ttl, persist |-> p]

\* the configurations and queue.json contents a process of the model starts
\* with when persistence is switched off
Starts ==
    { <<QueueConfig(DEFAULT_MAX_CONCURRENT, SmallTTL, FALSE), FileOf(<<PrevOld, PrevFresh>>)>>,
      <<QueueConfig(DEFAULT_MAX_CONCURRENT, 0, FALSE), FileAbsent>>,
      <<QueueConfig(DEFAULT_MAX_CONCURRENT + 1, SmallTTL, FALSE), FileCorrupt>>,
      <<QueueConfig(0, SmallTTL, FALSE), FileAbsent>> }

\* the default configuration, over a file an earlier process left
DefaultStart ==
    { <<QueueConfig(DEFAULT_MAX_CONCURRENT, SmallTTL, TRUE), FileOf(<<PrevOld, PrevFresh>>)>> }

----------------------------------------------------------------------------
(* DaemonProcess: the supervisor of one process *)

NoPid == 0             \* readPidFile's null; no file
Procs == 1..MaxProcs

\* the steps of stop(), in the order of its statements (lines 222-262)
StopOrder == <<"daemon:stopping", "running=false", "scheduler.stop", "watcher.stop",
               "drain", "snapshot", "heartbeat", "listeners", "signals", "pidfile",
               "daemon:stopped">>

\* a process not yet launched.  pc: where start() stands; stop: where stop()
\* stands; steps: the steps of stop() performed so far; inflight: the ids
\* running when stop() was entered; deafAt: how many events had been emitted
\* when the bus listeners were cleared
NewSupervisor ==
    [pc |-> "new", stop |-> "none", alive |-> FALSE, running |-> FALSE,
     error |-> NoPid, cleaned |-> FALSE, wired |-> FALSE, listening |-> FALSE,
     handlers |-> FALSE, heartbeat |-> FALSE, schedulerOn |-> FALSE,
     watcherOn |-> FALSE, warned |-> FALSE, signals |-> 0, steps |-> <<>>,
     inflight |-> {}, deafAt |-> 0]

EvDaemon(type, p) == [type |-> type, pid |-> p]

NoRun == 0 - 1         \* a lastRun or nextRun that is undefined
NoSchedulesFile == [kind |-> "absent", entries |-> <<>>]

\* a Scheduler just constructed (scheduler.ts 25-35).  pc: where start()
\* stands; gen: how often loadSchedules has replaced the entry objects;
\* timers: the timers armed; file: schedules.json; requests: the enqueue calls
\* made so far; saves: the calls of saveSchedules in progress; call: the last
\* operation and what it returned
NewSchedulerOn(f) ==
    [started |-> FALSE, pc |-> "new", gen |-> 0, schedules |-> <<>>, timers |-> {},
     file |-> f, requests |-> <<>>, saves |-> {}, nextSave |-> 1,
     call |-> [op |-> "none", id |-> 0, enabled |-> FALSE, ret |-> FALSE]]
NewScheduler == NewSchedulerOn(NoSchedulesFile)

\* a FileWatcher just constructed (watcher.ts 33-52).  pc: where stop()
\* stands; batches: the open batches; requests: the enqueue calls made so far;
\* changes: the change events handled; flushed: the batch flushed in the step
\* just taken, if any; seen: for each rule, the changes matching it that were
\* reported since the batch of its scanners was last flushed or dropped
NewWatcher == [started |-> FALSE, pc |-> "none", batches |-> {}, requests |-> <<>>,
               changes |-> 0, flushed |-> <<>>, seen |-> {}]

\* an EventBus just constructed (part_004 15-17).  listeners: per type, the
\* listeners in the order of the Set; globalListeners: the same for onAny;
\* throws: the listeners that throw when called; calls: the listener calls
\* made so far; emits: the emit calls made so far; escaped: an exception is on
\* its way to, or has reached, a caller of emit; emitted: the type of the
\* last emit; regs: the subscriptions in force, in the order in which they
\* were made; ons: the on and onAny calls made so far
NewBus == [listeners |-> [t \in {} |-> <<>>], globalListeners |-> <<>>,
           throws |-> {}, calls |-> <<>>, emits |-> 0, escaped |-> FALSE,
           emitted |-> "", regs |-> <<>>, ons |-> 0]

\* a ScannerRegistry just constructed (registry.ts 12-13).  scanners: the Map,
\* in insertion order; pc, context, todo, results: the runAll in progress;
\* atCall: the scanners when it was called; escaped: runAll rejected;
\* rejected: a register call threw; runs: the runAll calls made so far
NewRegistry == [scanners |-> <<>>, pc |-> "idle", context |-> "", todo |-> <<>>,
                results |-> <<>>, atCall |-> <<>>, escaped |-> FALSE,
                rejected |-> FALSE, runs |-> 0]

\* no scan results yet and no snapshot built (part_020 99-101)
NewHealth == [ids |-> <<>>, results |-> <<>>, built |-> FALSE, overall |-> 0,
              status |-> "", scanners |-> [id \in {} |-> 0]]

\* a file that does not exist
NoLogFile == [id |-> 0, content |-> <<>>]

\* no log file and no rotated copy, no rotation in progress.  A file is its
\* identity (its inode) and its lines; log: the log file; rotated: log.1 ..
\* log.N; nextFile: the next identity; pc, i: the rotation in progress;
\* atStart: the files when it began; ret: what the last rotateLogIfNeeded
\* returned; appends: the appendLog calls in flight; lines: the lines handed
\* to appendLog so far; checks: the rotateLogIfNeeded calls so far
NewLogs == [log |-> NoLogFile, rotated |-> [n \in 1..LogMaxFiles |-> NoLogFile],
            nextFile |-> 1, pc |-> "idle", i |-> 0,
            atStart |-> [log |-> NoLogFile, rotated |-> [n \in 1..LogMaxFiles |-> NoLogFile]],
            ret |-> "none",
            appends |-> {}, lines |-> 0, checks |-> 0]

NoCall == [op |-> "none", scanner |-> "", priority |-> NORMAL, files |-> NoFiles,
           ret |-> Null, idle |-> FALSE, again |-> FALSE]
OtherCall == [NoCall EXCEPT !.op = "other"]

Idle(st) == st.queue = <<>> /\ MapSize(st.running) = 0 /\ ~st.processing

InitBase(starts) ==
    /\ \E st \in starts : config = st[1] /\ file = st[2]
    /\ queue = <<>>
    /\ running = EmptyMap
    /\ completed = <<>>
    /\ processing = FALSE
    /\ awaiting = {}
    /\ events = <<>>
    /\ clock = ClockStart
    /\ nextId = 1
    /\ pendingSnap = 0
    /\ pendingWrite = {}
    /\ restorePc = "new"
    /\ restoreRaw = <<>>
    /\ restoreRet = 0
    /\ epoch = 0
    /\ sup = [p \in Procs |-> NewSupervisor]
    /\ watcher = NewWatcher
    /\ registry = NewRegistry
    /\ last = NoCall

\* the workspace has no schedules.json and nothing is subscribed to the bus
InitQueue(starts) ==
    /\ InitBase(starts)
    /\ scheduler = NewScheduler
    /\ bus = NewBus
    /\ health = NewHealth
    /\ logs = NewLogs

\* a queue on whose bus nothing that enqueues is subscribed
InitWith(starts) == InitQueue(starts) /\ listener = NoListener /\ pidFile = NoPid

Init == InitWith(Starts)

Install(st) ==
    /\ queue' = st.queue
    /\ running' = st.running
    /\ completed' = st.completed
    /\ processing' = st.processing
    /\ awaiting' = st.awaiting
    /\ events' = st.events
    /\ pendingSnap' = st.pendingSnap
    /\ nextId' = st.nextId

PendingIO == pendingSnap + Cardinality(pendingWrite)
MayPersist == config.persist => PendingIO < MaxPending

\* a caller (scheduler, watcher, cli) calls enqueue
Enqueue(scanner, priority, files) ==
    /\ MayPersist
    /\ LET r == enqueue(QueueObject, scanner, priority, files, clock)
       IN  /\ Install(r.st)
           /\ last' = [op |-> "enqueue", scanner |-> scanner, priority |-> priority,
                       files |-> files, ret |-> r.ret, idle |-> Idle(QueueObject),
                       again |-> /\ last.op = "enqueue" /\ last.idle
                                 /\ last.scanner = scanner
                                 /\ ~last.files.defined /\ ~files.defined]
    /\ UNCHANGED <<pidFile, sup, scheduler, watcher, bus, registry, health, logs>>
    /\ UNCHANGED <<config, epoch, listener, clock, file, pendingWrite, restorePc, restoreRaw,
                   restoreRet>>

\* the scanner of an awaited task returns (ok) or throws
Complete(task, ok) ==
    /\ task \in awaiting
    /\ ok => task.scanner \in Registered
    /\ MayPersist
    /\ Install(Settle(QueueObject, task, ok, clock))
    /\ last' = OtherCall
    /\ UNCHANGED <<pidFile, sup, scheduler, watcher, bus, registry, health, logs>>
    /\ UNCHANGED <<config, epoch, listener, clock, file, pendingWrite, restorePc, restoreRaw,
                   restoreRet>>

\* a caller calls clear()
Clear ==
    /\ queue # <<>>
    /\ MayPersist
    /\ Install(clear(QueueObject))
    /\ last' = OtherCall
    /\ UNCHANGED <<pidFile, sup, scheduler, watcher, bus, registry, health, logs>>
    /\ UNCHANGED <<config, epoch, listener, clock, file, pendingWrite, restorePc, restoreRaw,
                   restoreRet>>

\* a millisecond passes
Tick ==
    /\ clock < MaxClock
    /\ clock' = clock + 1
    /\ last' = OtherCall
    /\ UNCHANGED <<pidFile, sup, scheduler, watcher, bus, registry, health, logs>>
    /\ UNCHANGED <<config, epoch, listener, queue, running, completed, processing, awaiting, events,
                   nextId, file, pendingSnap, pendingWrite, restorePc, restoreRaw, restoreRet>>

\* persistState() resumes after pathExists/mkdir: snapshot and writeFile (233-238)
PersistSnapshot ==
    /\ pendingSnap > 0
    /\ pendingSnap' = pendingSnap - 1
    /\ pendingWrite' = pendingWrite \cup {Snapshot(QueueObject)}
    /\ last' = OtherCall
    /\ UNCHANGED <<pidFile, sup, scheduler, watcher, bus, registry, health, logs>>
    /\ UNCHANGED <<config, epoch, listener, queue, running, completed, processing, awaiting, events,
                   clock, nextId, file, restorePc, restoreRaw, restoreRet>>

\* a writeFile reaches the disk
PersistWrite(snap) ==
    /\ snap \in pendingWrite
    /\ pendingWrite' = pendingWrite \ {snap}
    /\ file' = FileOf(snap)
    /\ last' = OtherCall
    /\ UNCHANGED <<pidFile, sup, scheduler, watcher, bus, registry, health, logs>>
    /\ UNCHANGED <<config, epoch, listener, queue, running, completed, processing, awaiting, events,
                   clock, nextId, pendingSnap, restorePc, restoreRaw, restoreRet>>

\* restore() is called and suspends on pathExists (line 249)
RestoreCall ==
    /\ restorePc = "new"
    /\ restorePc' = "exists"
    /\ last' = OtherCall
    /\ UNCHANGED <<pidFile, sup, scheduler, watcher, bus, registry, health, logs>>
    /\ UNCHANGED <<config, epoch, listener, queue, running, completed, processing, awaiting, events,
                   clock, nextId, file, pendingSnap, pendingWrite, restoreRaw, restoreRet>>

\* pathExists answers: return 0 without a file, else suspend on readFile
RestoreExists ==
    /\ restorePc = "exists"
    /\ restorePc' = IF file.kind = "absent" THEN "done" ELSE "read"
    /\ restoreRet' = 0
    /\ last' = OtherCall
    /\ UNCHANGED <<pidFile, sup, scheduler, watcher, bus, registry, health, logs>>
    /\ UNCHANGED <<config, epoch, listener, queue, running, completed, processing, awaiting, events,
                   clock, nextId, file, pendingSnap, pendingWrite, restoreRaw>>

\* readFile answers and restore() runs to its return
RestoreRead ==
    /\ restorePc = "read"
    /\ LET r == restoreFrom(QueueObject, file, clock)
       IN  /\ Install(r.st)
           /\ restoreRet' = r.ret
    /\ restoreRaw' = IF file.kind = "json" THEN file.queue ELSE <<>>
    /\ restorePc' = "done"
    /\ last' = OtherCall
    /\ UNCHANGED <<pidFile, sup, scheduler, watcher, bus, registry, health, logs>>
    /\ UNCHANGED <<config, epoch, listener, clock, file, pendingWrite>>

\* the process dies and the supervisor is started again on the workspace: a
\* new TaskQueue is constructed; what was in memory, the suspended
\* persistState() calls and the writes still in flight are gone, the file
\* stays.  The events of the dead process stay on record.
Crash ==
    /\ epoch < MaxCrashes
    /\ epoch' = epoch + 1
    /\ queue' = <<>>
    /\ running' = EmptyMap
    /\ completed' = <<>>
    /\ processing' = FALSE
    /\ awaiting' = {}
    /\ pendingSnap' = 0
    /\ pendingWrite' = {}
    /\ restorePc' = "new"
    /\ restoreRaw' = <<>>
    /\ restoreRet' = 0
    /\ last' = OtherCall
    /\ UNCHANGED <<pidFile, sup, scheduler, watcher, bus, registry, health, logs, config, listener, events, clock, nextId, file>>

----------------------------------------------------------------------------
(* DaemonProcess.start and DaemonProcess.stop.  One action is one run of   *)
(* process p from one await to the next.  The workspace of these actions   *)
(* is fresh: no queue.json, so the restore() of start() returns 0, and no  *)
(* schedules.json, so the scheduler's catch-up enqueues nothing.           *)

queueRest == <<config, queue, running, completed, processing, awaiting, clock,
               nextId, file, pendingSnap, pendingWrite, restorePc, restoreRaw,
               restoreRet, epoch, listener>>

\* process p moves to s, emitting evs and leaving pid in the PID file
SupStep(p, s, evs, pid) ==
    /\ sup' = [sup EXCEPT ![p] = s]
    /\ events' = events \o evs
    /\ pidFile' = pid
    /\ last' = OtherCall
    /\ UNCHANGED queueRest
    /\ UNCHANGED <<scheduler, watcher, bus, registry, health, logs>>

\* the process is launched and calls start(): running is false, readPidFile
\* suspends on pathExists (lines 150-155, 448)
StartCall(p) ==
    /\ sup[p].pc = "new"
    /\ SupStep(p, [sup[p] EXCEPT !.pc = "pid:exists", !.alive = TRUE], <<>>, pidFile)

\* lines 164-168: no live daemon was found; running is set and
\* ensureDcyfrDir awaited
Proceed(s) == [s EXCEPT !.running = TRUE, !.pc = "ensure"]

\* pathExists answers: without a file existingPid is null, with one readFile
\* is awaited (lines 448-451)
StartExists(p) ==
    /\ sup[p].pc = "pid:exists" /\ sup[p].alive
    /\ SupStep(p, IF pidFile = NoPid THEN Proceed(sup[p])
                  ELSE [sup[p] EXCEPT !.pc = "pid:read"], <<>>, pidFile)

\* a process that takes every PID file for stale
isProcessAlive_Never(pid) == FALSE

\* process.kill(pid, 0) succeeds
isProcessAlive(pid) == sup[pid].alive

\* readFile answers (or throws: the file is gone, existingPid is null); a
\* live pid makes start() throw, a dead one has removePidFile awaited
\* (lines 451-161)
StartRead(p) ==
    /\ sup[p].pc = "pid:read" /\ sup[p].alive
    /\ SupStep(p, IF pidFile = NoPid THEN Proceed(sup[p])
                  ELSE IF isProcessAlive(pidFile)
                       THEN [sup[p] EXCEPT !.pc = "failed", !.error = pidFile]
                       ELSE [sup[p] EXCEPT !.pc = "pid:remove"], <<>>, pidFile)

\* unlink has removed the PID file that is there now, or found none
StartRemoveStale(p) ==
    /\ sup[p].pc = "pid:remove" /\ sup[p].alive
    /\ SupStep(p, Proceed([sup[p] EXCEPT !.cleaned = TRUE]), <<>>, NoPid)

\* ensureDcyfrDir is done; writePidFile is awaited (line 171)
StartEnsureDir(p) ==
    /\ sup[p].pc = "ensure" /\ sup[p].alive
    /\ SupStep(p, [sup[p] EXCEPT !.pc = "pid:write"], <<>>, pidFile)

\* writeFile has written this process's pid; the registry is awaited
StartWritePid(p) ==
    /\ sup[p].pc = "pid:write" /\ sup[p].alive
    /\ SupStep(p, [sup[p] EXCEPT !.pc = "registry"], <<>>, p)

\* lines 176-181: queue, scheduler and watcher are built; restore() is awaited
StartRegistry(p) ==
    /\ sup[p].pc = "registry" /\ sup[p].alive
    /\ SupStep(p, [sup[p] EXCEPT !.pc = "restore", !.wired = TRUE], <<>>, pidFile)

\* lines 187-202: listeners, signal handlers and heartbeat are set up,
\* daemon:started is emitted, scheduler.start() is awaited
StartRestore(p) ==
    /\ sup[p].pc = "restore" /\ sup[p].alive
    /\ SupStep(p, [sup[p] EXCEPT !.pc = "scheduler", !.listening = TRUE,
                                 !.handlers = TRUE, !.heartbeat = TRUE],
               <<EvDaemon("daemon:started", p)>>, pidFile)

\* scheduler.start() has armed its timers (scheduler.ts 54-58); watcher.start()
\* creates the watcher and is awaited (watcher.ts 57-85)
StartScheduler(p) ==
    /\ sup[p].pc = "scheduler" /\ sup[p].alive
    /\ SupStep(p, [sup[p] EXCEPT !.pc = "watcher", !.schedulerOn = TRUE,
                                 !.watcherOn = TRUE], <<>>, pidFile)

\* the watcher is ready; start() returns
StartWatcher(p) ==
    /\ sup[p].pc = "watcher" /\ sup[p].alive
    /\ SupStep(p, [sup[p] EXCEPT !.pc = "ready"], <<>>, pidFile)

\* scanResults is not empty: the scan:completed listener of the supervisor
\* has cached a result while it was subscribed (lines 330-339)
HasResults(s) ==
    \E i \in 1..(IF s.listening THEN Len(events) ELSE s.deafAt) :
        events[i].type = "scan:completed"

\* lines 246-259: after saveHealth, the heartbeat, the bus listeners and the
\* signal handlers go; removePidFile is awaited
Cleanup(s) ==
    [s EXCEPT !.heartbeat = FALSE, !.listening = FALSE, !.handlers = FALSE,
              !.deafAt = Len(events),
              !.steps = @ \o <<"heartbeat", "listeners", "signals">>,
              !.stop = "unlink"]

\* lines 241-244: drain() has returned; the drain timer is cleared and
\* saveHealth() called: it returns at once with nothing cached, else it
\* suspends on saveHealthSnapshot
AfterDrain(s) ==
    LET drained == [s EXCEPT !.steps = Append(@, "drain")]
    IN  IF HasResults(s) THEN [drained EXCEPT !.stop = "health"] ELSE Cleanup(drained)

\* lines 219-232: stop() from its call to the await of watcher.stop()
StopCall(s) ==
    [s EXCEPT !.running = FALSE, !.schedulerOn = FALSE, !.watcherOn = FALSE,
              !.steps = <<"daemon:stopping", "running=false", "scheduler.stop">>,
              !.inflight = {running[k].id : k \in DOMAIN running},
              !.stop = "watcher"]

\* a termination signal reaches a process whose handlers are installed:
\* stop() runs to its first await, or returns at once when running is false
\* and the handler exits the process (lines 293-295, 219)
Signal(p) ==
    /\ sup[p].alive /\ sup[p].handlers
    /\ sup[p].signals < MaxSignals
    /\ IF sup[p].running
       THEN SupStep(p, [StopCall(sup[p]) EXCEPT !.signals = @ + 1],
                    <<EvDaemon("daemon:stopping", p)>>, pidFile)
       ELSE SupStep(p, [sup[p] EXCEPT !.signals = @ + 1, !.alive = FALSE],
                    <<>>, pidFile)

\* watcher.stop() has closed the watcher; the drain timer is armed and
\* drain() called: it returns at once when nothing is running (lines 233-240)
StopWatcher(p) ==
    /\ sup[p].stop = "watcher" /\ sup[p].alive
    /\ LET closed == [sup[p] EXCEPT !.steps = Append(@, "watcher.stop")]
       IN  SupStep(p, IF MapSize(running) = 0 THEN AfterDrain(closed)
                      ELSE [closed EXCEPT !.stop = "drain"], <<>>, pidFile)

\* a drain() that stops waiting at its first poll
DrainPoll_Impatient(p) ==
    /\ sup[p].stop = "drain" /\ sup[p].alive
    /\ SupStep(p, AfterDrain(sup[p]), <<>>, pidFile)

\* the poll timer of drain() fires and finds nothing running (part_006 311-313)
DrainPoll(p) ==
    /\ sup[p].stop = "drain" /\ sup[p].alive
    /\ MapSize(running) = 0
    /\ SupStep(p, AfterDrain(sup[p]), <<>>, pidFile)

\* the drain timer fires: a warning is logged (lines 236-238)
DrainTimeout(p) ==
    /\ sup[p].stop = "drain" /\ sup[p].alive
    /\ ~sup[p].warned
    /\ SupStep(p, [sup[p] EXCEPT !.warned = TRUE], <<>>, pidFile)

\* saveHealthSnapshot has saved the final snapshot, or thrown (lines 391-413)
StopHealth(p) ==
    /\ sup[p].stop = "health" /\ sup[p].alive
    /\ SupStep(p, Cleanup([sup[p] EXCEPT !.steps = Append(@, "snapshot")]), <<>>, pidFile)

\* unlink has removed the PID file; daemon:stopped is emitted, stop() returns
\* and the signal handler exits the process (lines 259-262, 294)
StopUnlink(p) ==
    /\ sup[p].stop = "unlink" /\ sup[p].alive
    /\ SupStep(p, [sup[p] EXCEPT !.stop = "done", !.alive = FALSE,
                                 !.steps = @ \o <<"pidfile", "daemon:stopped">>],
               <<EvDaemon("daemon:stopped", p)>>, NoPid)

\* the process is killed where it stands
Die(p) ==
    /\ sup[p].alive
    /\ SupStep(p, [sup[p] EXCEPT !.alive = FALSE], <<>>, pidFile)

\* the steps of start() and stop() of process p
StartStepOf(p) ==
    \/ StartCall(p)
    \/ StartExists(p)
    \/ StartRead(p)
    \/ StartRemoveStale(p)
    \/ StartEnsureDir(p)
    \/ StartWritePid(p)
    \/ StartRegistry(p)
    \/ StartRestore(p)
    \/ StartScheduler(p)
    \/ StartWatcher(p)

StopStepOf(p) ==
    \/ StopWatcher(p)
    \/ DrainPoll(p)
    \/ DrainTimeout(p)
    \/ StopHealth(p)
    \/ StopUnlink(p)

\* Processes started on one workspace, and killed, in any order
NextPid ==
    \E p \in Procs :
        \/ StartStepOf(p)
        \/ Die(p)

SpecPid ==
    /\ InitWith({<<QueueConfig(DEFAULT_MAX_CONCURRENT, SmallTTL, TRUE), FileAbsent>>})
    /\ [][NextPid]_vars

\* the process whose queue the model follows
Owner == CHOOSE p \in Procs : \A q \in Procs : p <= q

\* a timer of the scheduler fires, or the watcher flushes a batch: the
\* scanner is enqueued at NORMAL (scheduler.ts 99-111)
Trigger(scanner) ==
    /\ sup[Owner].alive
    /\ sup[Owner].schedulerOn \/ sup[Owner].watcherOn
    /\ Enqueue(scanner, NORMAL, NoFiles)

StopScanners == {"lint", "ghost"}

\* One process: it starts on a workspace with no PID file or a stale one, its
\* scheduler and watcher enqueue, scans return, and termination signals arrive
NextStop ==
    \/ StartStepOf(Owner)
    \/ Signal(Owner)
    \/ StopStepOf(Owner)
    \/ nextId <= MaxTasks /\ \E s \in StopScanners : Trigger(s)
    \/ sup[Owner].alive /\ \E t \in awaiting, ok \in BOOLEAN : Complete(t, ok)
    \/ sup[Owner].alive /\ PersistSnapshot
    \/ \E snap \in pendingWrite : PersistWrite(snap)

InitStop ==
    /\ InitQueue({<<QueueConfig(DEFAULT_MAX_CONCURRENT, SmallTTL, TRUE), FileAbsent>>})
    /\ listener = NoListener
    /\ pidFile \in {NoPid} \cup (Procs \ {Owner})

SpecStop == InitStop /\ [][NextStop]_vars

\* the same, with every await of start() and stop() answered in the end and
\* every armed timer firing; a scan need never return
SpecStopFair ==
    /\ InitStop
    /\ [][NextStop]_vars
    /\ WF_vars(StartStepOf(Owner))
    /\ WF_vars(StopStepOf(Owner))

MainScanners == {"lint", "ghost"}
MainPriorities == {NORMAL}
MainFiles == {NoFiles, SomeFiles(<<1>>)}

\* a queue configured with persist: false, driven by any caller
Next ==
    \/ /\ nextId <= MaxTasks
       /\ \E s \in MainScanners, p \in MainPriorities, f \in MainFiles : Enqueue(s, p, f)
    \/ \E t \in awaiting, ok \in BOOLEAN : Complete(t, ok)
    \/ Clear
    \/ Tick
    \/ RestoreCall
    \/ RestoreExists
    \/ RestoreRead

Spec == Init /\ [][Next]_vars

\* The queue as the supervisor drives it: DaemonProcess.start awaits restore()
\* before anything can enqueue
NextStartup ==
    \/ RestoreCall
    \/ RestoreExists
    \/ RestoreRead
    \/ /\ restorePc = "done"
       /\ nextId <= MaxTasks
       /\ \E s \in MainScanners, p \in MainPriorities, f \in MainFiles : Enqueue(s, p, f)
    \/ \E t \in awaiting, ok \in BOOLEAN : Complete(t, ok)
    \/ restorePc = "done" /\ Clear
    \/ restorePc = "done" /\ Tick
    \/ PersistSnapshot
    \/ \E snap \in pendingWrite : PersistWrite(snap)

SpecStartup == InitWith(DefaultStart) /\ [][NextStartup]_vars

\* The supervisor's queue over a workspace with no queue.json, with processes
\* that die and are started again
CrashScanners == {"lint", "docs"}

NextCrash ==
    \/ RestoreCall
    \/ RestoreExists
    \/ RestoreRead
    \/ /\ restorePc = "done"
       /\ nextId <= CrashTasks
       /\ \E s \in CrashScanners : Enqueue(s, NORMAL, NoFiles)
    \/ \E t \in awaiting, ok \in BOOLEAN : Complete(t, ok)
    \/ PersistSnapshot
    \/ \E snap \in pendingWrite : PersistWrite(snap)
    \/ Crash

SpecCrash ==
    InitWith({<<QueueConfig(DEFAULT_MAX_CONCURRENT, SmallTTL, TRUE), FileAbsent>>})
    /\ [][NextCrash]_vars

\* A queue with a listener on its bus that enqueues a lint scan at HIGH from
\* inside the events of one type, or of every type; taskTTL is 0, so a task
\* still queued a millisecond later expires at the next executor tick
QueueEvents == {"task:queued", "task:started", "task:completed", "task:failed",
                "task:expired", "scan:completed"}
Listeners ==
    {[on |-> types, scanner |-> "lint", priority |-> HIGH, calls |-> ListenerTasks + 1] :
        types \in {{e} : e \in QueueEvents} \cup {QueueEvents}}
ListenerScanners == {"lint", "docs"}

NextListener ==
    \/ /\ nextId <= ListenerTasks
       /\ \E s \in ListenerScanners : Enqueue(s, NORMAL, NoFiles)
    \/ \E t \in awaiting, ok \in BOOLEAN : Complete(t, ok)
    \/ Tick

SpecListener ==
    /\ InitQueue({<<QueueConfig(DEFAULT_MAX_CONCURRENT, 0, FALSE), FileAbsent>>})
    /\ listener \in Listeners
    /\ pidFile = NoPid
    /\ [][NextListener]_vars

\* A queue that takes the whole range of files arguments, for the duplicate test
DedupScanners == {"lint", "docs"}

NextDedup ==
    \/ /\ nextId <= MaxTasks
       /\ \E s \in DedupScanners, f \in FilesArgs : Enqueue(s, NORMAL, f)
    \/ \E t \in awaiting, ok \in BOOLEAN : Complete(t, ok)
    \/ Clear

SpecDedup ==
    InitWith({<<QueueConfig(DEFAULT_MAX_CONCURRENT, SmallTTL, FALSE), FileAbsent>>})
    /\ [][NextDedup]_vars

\* A queue of three scanners and every priority, for the order of execution
S2Scanners == {"lint", "docs", "audit"}

NextS2 ==
    \/ /\ nextId <= S2Tasks
       /\ \E s \in S2Scanners, p \in Priorities : Enqueue(s, p, NoFiles)
    \/ \E t \in awaiting, ok \in BOOLEAN : Complete(t, ok)

SpecS2 ==
    InitWith({<<QueueConfig(DEFAULT_MAX_CONCURRENT, SmallTTL, FALSE), FileAbsent>>})
    /\ [][NextS2]_vars

----------------------------------------------------------------------------
(* Vocabulary of the properties *)

RangeOf(s) == {s[i] : i \in 1..Len(s)}

\* the live tasks: those queued and those running
LiveOf(q, r) == {t \in RangeOf(q) : t.status = "queued"} \cup {r[k] : k \in DOMAIN r}

\* how many positions of the queue and of the running map hold a task with this id
LiveCount(q, r, id) ==
    Cardinality({i \in 1..Len(q) : q[i].id = id})
    + Cardinality({k \in DOMAIN r : r[k].id = id})

CountPath(l, p) == Cardinality({i \in 1..Len(l) : l[i] = p})

\* equal file sets: both absent, or both present with every path as often in
\* one as in the other, whatever the order
EqualFileSet(a, b) ==
    /\ a.defined = b.defined
    /\ a.defined => \A p \in RangeOf(a.paths) \cup RangeOf(b.paths) :
                        CountPath(a.paths, p) = CountPath(b.paths, p)

IsPrefix(s, t) == Len(s) <= Len(t) /\ SubSeq(t, 1, Len(s)) = s
Added(s, t) == SubSeq(t, Len(s) + 1, Len(t))       \* what t has after its prefix s
OfType(evs, type) == SelectSeq(evs, LAMBDA e : e.type = type)
IdsOf(evs, type) == [i \in 1..Len(OfType(evs, type)) |-> OfType(evs, type)[i].taskId]

KnownIds == {t.id : t \in LiveOf(queue, running) \cup RangeOf(completed)}
            \cup {e.taskId : e \in {x \in RangeOf(events) : x.type # "scan:completed"}}

\* this step is a call of enqueue
EnqueueStep == last'.op = "enqueue"

\* the call of this step found a live task of its scanner with an equal file set
CalledOnDuplicate ==
    \E t \in LiveOf(queue, running) :
        t.scanner = last'.scanner /\ EqualFileSet(t.files, last'.files)

\* a call that returns null changes nothing and emits nothing
DroppedUnchanged ==
    last'.ret = Null =>
        /\ queue' = queue /\ running' = running /\ completed' = completed
        /\ events' = events

\* an accepted call emits exactly one task:queued, for a fresh id
AcceptedEmitsOnce ==
    last'.ret # Null =>
        /\ last'.ret \notin KnownIds
        /\ IsPrefix(events, events')
        /\ IdsOf(Added(events, events'), "task:queued") = <<last'.ret>>

\* the tasks accepted by enqueue that are live differ in scanner or file set
AcceptedDistinct ==
    \A t, u \in LiveOf(queue, running) :
        (t.id < PrevIdBase /\ u.id < PrevIdBase /\ t.id # u.id) =>
            ~(t.scanner = u.scanner /\ EqualFileSet(t.files, u.files))

SecondOfTwo ==
    /\ last.op = "enqueue" /\ last.idle /\ ~last.files.defined
    /\ EnqueueStep /\ last'.scanner = last.scanner /\ ~last'.files.defined

\* C2 (as stated): scenario S1: the first call returns an id, the second null,
\* and size() is 1 after the two calls.
C2_AsStated ==
    [][SecondOfTwo =>
        /\ last.ret # Null
        /\ last'.ret = Null
        /\ size([queue |-> queue']) = 1]_vars

\* C2 (amended): the first call returns an id and the second null; with
\* maxConcurrent >= 1 size() is 0 after the two calls, the one live task being
\* the first call's, already running; with maxConcurrent = 0 size() is 1.
C2_Coalesce ==
    [][SecondOfTwo =>
        /\ last.ret # Null
        /\ last'.ret = Null
        /\ config.maxConcurrent >= 1 =>
              /\ size([queue |-> queue']) = 0
              /\ LiveOf(queue', running') = {running'[last.scanner]}
              /\ running'[last.scanner].id = last.ret
        /\ config.maxConcurrent = 0 =>
              /\ size([queue |-> queue']) = 1
              /\ running' = EmptyMap]_vars

\* witness of C2: the second call of scenario S1 has returned null under the
\* default maxConcurrent, with nothing queued and the first task running
C2_Witness ==
    /\ last.op = "enqueue" /\ last.again /\ last.ret = Null
    /\ config.maxConcurrent = DEFAULT_MAX_CONCURRENT
    /\ size(QueueObject) = 0
    /\ MapHas(running, last.scanner)

\* C3: in every reachable state each scanner has at most one task in flight
\* (status running, its scan awaited), and the tasks in flight, which are the
\* entries of the running map, number at most maxConcurrent.
C3_RunningBounded ==
    /\ \A t \in awaiting : t.status = "running"
    /\ \A t, u \in awaiting : t.scanner = u.scanner => t = u
    /\ Cardinality(awaiting) <= config.maxConcurrent
    /\ {running[k] : k \in DOMAIN running} = awaiting

\* witness of C3: with maxConcurrent = 2 a task runs while an accepted task of
\* the same scanner waits in the queue
C3_Witness ==
    /\ config.maxConcurrent = DEFAULT_MAX_CONCURRENT + 1
    /\ \E t \in awaiting : \E i \in 1..Len(queue) :
          queue[i].scanner = t.scanner /\ queue[i].status = "queued"

StartedIds(evs) == IdsOf(evs, "task:started")

\* this step starts a task
StartStep == Len(StartedIds(events')) > Len(StartedIds(events))

\* the task this step starts, as the running map holds it afterwards
Picked == CHOOSE t \in {running'[k] : k \in DOMAIN running'} :
              t.id = Last(StartedIds(events'))

\* the priority a task was queued with, from its task:queued event
QueuedPriority(id) ==
    (CHOOSE e \in RangeOf(events) : e.type = "task:queued" /\ e.taskId = id).priority

\* the first three calls were accepted back to back at NORMAL, HIGH, CRITICAL
\* for three scanners: ids 1, 2, 3 (task 1 may have been started meanwhile,
\* nothing has finished)
ScenarioS2 ==
    LET q == OfType(events, "task:queued")
    IN  /\ Len(q) >= 3
        /\ q[1].priority = NORMAL /\ q[2].priority = HIGH /\ q[3].priority = CRITICAL
        /\ Cardinality({q[1].scanner, q[2].scanner, q[3].scanner}) = 3
        /\ \A i \in 1..Len(events) :
              events[i].type \in {"task:completed", "task:failed"} =>
                \E j \in 1..(i - 1) : events[j] = q[3]

FirstThreeStarted == {1, 2, 3} \subseteq RangeOf(StartedIds(events))
StartOrderOfFirstThree == SelectSeq(StartedIds(events), LAMBDA id : id \in {1, 2, 3})

\* C4 (as stated): the priorities of the started tasks, in start order, never
\* decrease; in scenario S2 the start order is C, B, A (ids 3, 2, 1).
C4_AsStated ==
    /\ \A i, j \in 1..Len(StartedIds(events)) :
          i < j => QueuedPriority(StartedIds(events)[i])
                     <= QueuedPriority(StartedIds(events)[j])
    /\ (ScenarioS2 /\ FirstThreeStarted) => StartOrderOfFirstThree = <<3, 2, 1>>

\* C4 (amended): each started task has, when it is picked, the least numeric
\* priority among the tasks then queued and is the earliest enqueued of that
\* priority; in scenario S2 the start order is A, C, B (ids 1, 3, 2), A being
\* started inside its own enqueue call.
C4_PickOrder ==
    /\ [][StartStep =>
            \A i \in 1..Len(queue') :
                \/ Picked.priority < queue'[i].priority
                \/ Picked.priority = queue'[i].priority /\ Picked.id < queue'[i].id]_vars
    /\ []((ScenarioS2 /\ FirstThreeStarted) => StartOrderOfFirstThree = <<1, 3, 2>>)

\* witness of C4: scenario S2 ran to the start of its three tasks, in the
\* order A, C, B
C4_Witness ==
    ScenarioS2 /\ FirstThreeStarted /\ StartOrderOfFirstThree = <<1, 3, 2>>

TaskEvents == {"task:queued", "task:started", "task:completed", "task:failed",
               "task:expired"}

\* the types of the task events emitted for one id, in order
TraceOf(id) ==
    LET mine == SelectSeq(events, LAMBDA e : e.type \in TaskEvents /\ e.taskId = id)
    IN  [i \in 1..Len(mine) |-> mine[i].type]

EventIds == {e.taskId : e \in {x \in RangeOf(events) : x.type \in TaskEvents}}

FullTraces ==
    { <<"task:queued", "task:started", "task:completed">>,
      <<"task:queued", "task:started", "task:failed">>,
      <<"task:queued", "task:expired">> }

\* C5: the task events emitted for an id are, so far, the beginning of one of
\* queued, started, completed | queued, started, failed | queued, expired;
\* none is emitted twice, a start excludes an expiry, completed excludes failed.
C5_EventTrace ==
    \A id \in EventIds : \E full \in FullTraces : IsPrefix(TraceOf(id), full)

CountBefore(i, id, types) ==
    Cardinality({j \in 1..(i - 1) :
                    events[j].type \in types /\ events[j].taskId = id})

Ends == {"task:completed", "task:failed"}

\* C6: task:completed and task:failed come after the task:started of their
\* execution; every task:completed is followed by the scan:completed of its
\* scanner before any other task is started; scan:completed follows nothing
\* but a task:completed, so a failed task emits none.
C6_EventOrder ==
    /\ \A i \in 1..Len(events) :
          events[i].type \in Ends =>
            CountBefore(i, events[i].taskId, {"task:started"})
              > CountBefore(i, events[i].taskId, Ends)
    /\ \A i \in 1..Len(events) :
          events[i].type = "task:completed" =>
            \E k \in (i + 1)..Len(events) :
                /\ events[k].type = "scan:completed"
                /\ events[k].scanner = events[i].scanner
                /\ \A j \in (i + 1)..(k - 1) :
                      events[j].type \notin {"task:started", "scan:completed"}
    /\ \A k \in 1..Len(events) :
          events[k].type = "scan:completed" =>
            \E i \in 1..(k - 1) :
                /\ events[i].type = "task:completed"
                /\ events[i].scanner = events[k].scanner
                /\ \A j \in (i + 1)..(k - 1) :
                      events[j].type \notin Ends \cup {"task:started", "scan:completed"}

\* witness of C6: one task has failed and, after it, another has completed
\* and reported its scan
C6_Witness ==
    \E i, k \in 1..Len(events) :
        /\ i < k
        /\ events[i].type = "task:failed"
        /\ events[k].type = "scan:completed"

\* this step is the catch block of processNext: a task:failed is emitted
FailStep ==
    /\ Len(events') > Len(events)
    /\ events'[Len(events) + 1].type = "task:failed"

\* C7: when a scan throws, or its scanner is not registered, the task joins
\* the completion history as failed with the message, task:failed carries
\* that message, the running map holds nothing but the task the executor
\* starts next, and the executor has gone on: unless the queue is empty it
\* has started the next task and is still processing.
C7_ThrowHandled ==
    [][FailStep =>
        LET failed == events'[Len(events) + 1]
            done == Last(completed')
        IN  /\ Len(completed') = Len(completed) + 1
            /\ done.id = failed.taskId
            /\ done.status = "failed"
            /\ done.error = failed.error
            /\ done.error = IF done.scanner \in Registered THEN ErrThrown
                             ELSE ErrNotFound
            /\ IF StartStep
               THEN processing' /\ LiveOf(<<>>, running') = {Picked}
                    /\ awaiting' = {Picked}
               ELSE ~processing' /\ queue' = <<>> /\ running' = EmptyMap
                    /\ awaiting' = {}]_vars

\* witness of C7: a task naming an unregistered scanner has failed and the
\* executor has started the task that was queued behind it
C7_Witness ==
    /\ completed # <<>>
    /\ Last(completed).status = "failed"
    /\ Last(completed).error = ErrNotFound
    /\ Last(events).type = "task:started"
    /\ awaiting # {}

\* this step resumes processNext after a scan
CompleteStep ==
    /\ Len(events') > Len(events)
    /\ events'[Len(events) + 1].type \in Ends

\* this step runs the head of the executor loop on a non-empty queue: an
\* accepted enqueue on a queue that is not processing, or the end of a scan
\* with tasks left
ExecutorTick ==
    \/ EnqueueStep /\ last'.ret # Null /\ ~processing
    \/ CompleteStep /\ queue # <<>>

\* the positions of the queue whose task is older than the TTL now
TooOld == {i \in 1..Len(queue) : clock - queue[i].createdAt > config.taskTTL}

ExpiredAt(evs) == {k \in 1..Len(evs) : evs[k].type = "task:expired"}

\* C8: an executor tick removes from the queue every task older than the TTL
\* and emits one task:expired for each, and for no other task, before it
\* starts a task; a task is never started when its age exceeds the TTL.
C8_ExpireBeforePick ==
    /\ [][ExecutorTick =>
            LET added == Added(events, events')
            IN  /\ \A i \in TooOld :
                      /\ \A j \in 1..Len(queue') : queue'[j].id # queue[i].id
                      /\ Cardinality({k \in ExpiredAt(added) :
                                         added[k].taskId = queue[i].id})
                           = Cardinality({j \in TooOld : queue[j].id = queue[i].id})
                /\ \A k \in ExpiredAt(added) :
                      /\ \E i \in TooOld : queue[i].id = added[k].taskId
                      /\ \A j \in 1..(k - 1) : added[j].type # "task:started"]_vars
    /\ [][StartStep => clock - Picked.createdAt <= config.taskTTL]_vars

\* witness of C8: a tick has expired one task and then started another
C8_Witness ==
    \E k \in 1..(Len(events) - 1) :
        events[k].type = "task:expired" /\ events[k + 1].type = "task:started"

\* a persisted task as scenario S3 has it: at least two TTLs old when the
\* process starts
OldAtStart(t) ==
    config.taskTTL > 0 /\ ClockStart - t.createdAt >= 2 * config.taskTTL

\* C9 (as stated): scenario S3: once restore() has loaded the file, the first
\* executor tick emits task:expired for the persisted task two TTLs old.
C9_AsStated ==
    [][(ExecutorTick /\ restorePc = "done") =>
        \A i \in 1..Len(restoreRaw) :
            OldAtStart(restoreRaw[i]) =>
                \E k \in ExpiredAt(events') : events'[k].taskId = restoreRaw[i].id]_vars

\* C9 (amended): restore() itself drops the persisted task two TTLs old: it is
\* not re-queued and not counted in the value returned, it never runs, and no
\* event, task:expired included, is ever emitted for it.
C9_RestoreDropsOld ==
    /\ [][(restorePc = "read" /\ restorePc' = "done") =>
            /\ restoreRet' = Len(queue') - Len(queue)
            /\ \A i \in 1..Len(restoreRaw') :
                  OldAtStart(restoreRaw'[i]) =>
                    \A j \in 1..Len(queue') : queue'[j].id # restoreRaw'[i].id]_vars
    /\ [](\A i \in 1..Len(restoreRaw) :
            OldAtStart(restoreRaw[i]) =>
                /\ restoreRaw[i].id \notin EventIds
                /\ LiveCount(queue, running, restoreRaw[i].id) = 0
                /\ \A t \in RangeOf(completed) : t.id # restoreRaw[i].id)

\* witness of C9: restore() read a file holding a task two TTLs old and a
\* younger one, and the executor has since started the younger one
C9_Witness ==
    /\ restorePc = "done"
    /\ \E i \in 1..Len(restoreRaw) : OldAtStart(restoreRaw[i])
    /\ \E i \in 1..Len(restoreRaw) :
          /\ ~OldAtStart(restoreRaw[i])
          /\ restoreRaw[i].id \in RangeOf(StartedIds(events))

QueuedIds == RangeOf(IdsOf(events, "task:queued"))

\* C10 (as stated): with taskTTL = 0 no task accepted by enqueue is ever
\* started.
C10_AsStated ==
    config.taskTTL = 0 => QueuedIds \cap RangeOf(StartedIds(events)) = {}

\* C10 (amended): with taskTTL = 0 a task is started only by an executor tick
\* in the millisecond of its createdAt (as the tick inside its own enqueue
\* call is); a task still queued at a tick after the clock has advanced
\* expires there, and an expired task is never started.
C10_ZeroTTL ==
    /\ [][(config.taskTTL = 0 /\ StartStep) => Picked.createdAt = clock]_vars
    /\ [][(config.taskTTL = 0 /\ ExecutorTick) =>
            \A i \in 1..Len(queue) :
                queue[i].createdAt < clock =>
                    /\ \E k \in ExpiredAt(Added(events, events')) :
                          Added(events, events')[k].taskId = queue[i].id
                    /\ \A j \in 1..Len(queue') : queue'[j].id # queue[i].id]_vars
    /\ [](config.taskTTL = 0 =>
            \A id \in EventIds :
                ~({"task:expired", "task:started"} \subseteq RangeOf(TraceOf(id))))

\* witness of C10: with taskTTL = 0 one accepted task was started and another
\* has expired without a start
C10_Witness ==
    /\ config.taskTTL = 0
    /\ \E id \in QueuedIds : TraceOf(id) = <<"task:queued", "task:expired">>
    /\ \E id \in QueuedIds : "task:started" \in RangeOf(TraceOf(id))

----------------------------------------------------------------------------
(* Persistence: restore() and persistState() *)

\* this step is restore() running from the answer of readFile to its return
RestoreStep == restorePc = "read" /\ restorePc' = "done"

\* the persisted tasks whose age is at most the TTL
WithinTTL(persisted, now) ==
    SelectSeq(persisted, LAMBDA t : now - t.createdAt <= config.taskTTL)

\* C11: restore() on a file written by the queue re-queues exactly the
\* persisted tasks whose age is <= TTL, unchanged and with status queued,
\* returns their count and drops the older ones; a missing or unparsable file
\* restores nothing and leaves the queue unchanged.
C11_RoundTrip ==
    [][(RestoreStep \/ (restorePc = "exists" /\ restorePc' = "done")) =>
        LET kept == IF file.kind = "json" THEN WithinTTL(file.queue, clock) ELSE <<>>
        IN  /\ restoreRet' = Len(kept)
            /\ Len(queue') = Len(queue) + Len(kept)
            /\ RangeOf(queue') = RangeOf(queue) \cup RangeOf(kept)
            /\ \A t \in RangeOf(kept) : t.status = "queued"]_vars

\* C12: after an enqueue or a completion, once no persistState() call is
\* suspended and no writeFile is in flight, queue.json holds exactly the tasks
\* that are queued in memory, however the overlapping writes interleave.
C12_FileMatchesQueue ==
    (config.persist /\ restorePc = "done" /\ nextId > 1 /\ PendingIO = 0) =>
        file = FileOf(Snapshot(QueueObject))

\* C13: no task id is started (task:started) more than once, over all the
\* processes that own the workspace one after another, each calling restore()
\* on the persisted file when it starts.
C13_AtMostOnce ==
    \A i, j \in 1..Len(StartedIds(events)) :
        i # j => StartedIds(events)[i] # StartedIds(events)[j]

----------------------------------------------------------------------------
(* Re-entrancy: enqueue called from inside a listener *)

\* position k of the record is a task:queued emitted from inside the listener
\* call made for the event before it
ListenerQueued(k) ==
    /\ k > 1
    /\ events[k].type = "task:queued"
    /\ events[k].priority = listener.priority
    /\ events[k].scanner = listener.scanner
    /\ events[k - 1].type \in listener.on

\* C14: with a listener that calls enqueue from inside the events of any type,
\* at most one executor loop is suspended on a scan and at most one task is
\* running at any time; while a task is queued that one loop is active, and
\* when its scan settles it starts a queued task unless none is left.
C14_ReentrantSafe ==
    /\ [](/\ Cardinality(awaiting) <= 1
          /\ MapSize(running) <= 1
          /\ awaiting # {} => processing
          /\ processing => awaiting # {})
    /\ []((\E i \in 1..Len(queue) : queue[i].status = "queued") =>
             processing /\ Cardinality(awaiting) = 1)
    /\ [][CompleteStep => (queue' = <<>> \/ StartStep)]_vars

\* witness of C14: the listener enqueued from inside a task:expired event,
\* during the loop of expireStaleTasks, and the task it added has been started
C14_Witness ==
    \E k \in 1..Len(events) :
        /\ ListenerQueued(k)
        /\ events[k - 1].type = "task:expired"
        /\ events[k].taskId \in RangeOf(StartedIds(events))

----------------------------------------------------------------------------
(* The supervisor: single instance, start and stop *)

\* process p is past startup: alive, marked running, its PID file written
PastStartup(p) ==
    /\ sup[p].alive /\ sup[p].running
    /\ sup[p].pc \in {"registry", "restore", "scheduler", "watcher", "ready"}

\* C15: however the start() calls of distinct processes on one workspace
\* interleave, no two live supervisors are past startup at the same time.
C15_SingleInstance ==
    \A p, q \in Procs : (PastStartup(p) /\ PastStartup(q)) => p = q

\* process p has nothing of a started daemon: not marked running, no queue,
\* scheduler or watcher built or started, no listener, heartbeat or signal
\* handler
Untouched(s) ==
    /\ ~s.running /\ ~s.wired /\ ~s.listening /\ ~s.handlers /\ ~s.heartbeat
    /\ ~s.schedulerOn /\ ~s.watcherOn /\ s.stop = "none" /\ s.steps = <<>>

\* this step is the check of start() in process p: readFile has answered
ReadStep(p) == sup[p].pc = "pid:read" /\ sup'[p].pc # "pid:read"

\* C16: scenario S5: when the PID file names a live process P as start() of
\* another process reads it, that start() fails with an already-running error
\* naming P and does nothing else: the PID file still holds P, every other
\* process is as it was, nothing is emitted, and the failed process is not
\* marked running and has built or started no component, then or later.
C16_AlreadyRunning ==
    /\ [][\A p \in Procs :
            (ReadStep(p) /\ pidFile # NoPid /\ sup[pidFile].alive) =>
                /\ sup'[p] = [sup[p] EXCEPT !.pc = "failed", !.error = pidFile]
                /\ pidFile' = pidFile
                /\ \A q \in Procs \ {p} : sup'[q] = sup[q]
                /\ events' = events
                /\ UNCHANGED queueRest]_vars
    /\ [](\A p \in Procs : sup[p].pc = "failed" =>
            Untouched(sup[p]) /\ sup[p].error # NoPid /\ sup[p].error # p)

\* witness of C16: process 1 is up with its pid in the PID file and the
\* start() of process 2 has failed naming it
C16_Witness ==
    /\ sup[1].pc = "ready" /\ PastStartup(1) /\ pidFile = 1
    /\ sup[2].pc = "failed" /\ sup[2].error = 1

\* the steps of stop() when saveHealth() finds nothing cached: no snapshot
StopOrderNoSnapshot == SelectSeq(StopOrder, LAMBDA x : x # "snapshot")

\* this step is the removal of the PID file by stop() in process p
UnlinkStep(p) == sup[p].stop = "unlink" /\ sup'[p].stop = "done"

\* the ids for which task:completed or task:failed has been emitted
EndedIds(evs) ==
    {evs[i].taskId : i \in {j \in 1..Len(evs) : evs[j].type \in Ends}}

HasEvent(type, p) == \E i \in 1..Len(events) : events[i] = EvDaemon(type, p)

\* C17: stop() performs its steps in the order daemon:stopping and running =
\* false, scheduler stop, watcher stop, drain, final health snapshot (when a
\* scan result is cached), heartbeat timer, bus listeners, signal handlers,
\* PID file, daemon:stopped; and a task in flight when stop() is entered has
\* completed or failed before the PID file is removed and daemon:stopped is
\* emitted.
C17_StopOrder ==
    /\ [](\A p \in Procs :
            /\ \/ IsPrefix(sup[p].steps, StopOrder)
               \/ IsPrefix(sup[p].steps, StopOrderNoSnapshot)
            /\ sup[p].steps # <<>> <=> HasEvent("daemon:stopping", p)
            /\ sup[p].steps # <<>> => ~sup[p].running
            /\ HasEvent("daemon:stopped", p) <=>
                  sup[p].steps \in {StopOrder, StopOrderNoSnapshot}
            /\ HasEvent("daemon:stopped", p) =>
                  ~sup[p].heartbeat /\ ~sup[p].listening /\ ~sup[p].handlers)
    /\ [][\A p \in Procs :
            UnlinkStep(p) =>
                /\ pidFile' = NoPid
                /\ Last(events').type = "daemon:stopped"
                /\ sup[p].inflight \subseteq EndedIds(events)
                /\ "snapshot" \in RangeOf(sup[p].steps) <=> HasResults(sup[p])]_vars

\* witness of C17: a task was in flight when the signal arrived, and the stop
\* sequence has run to its end with a final snapshot
C17_Witness ==
    /\ sup[Owner].stop = "done"
    /\ sup[Owner].steps = StopOrder
    /\ sup[Owner].inflight # {}
    /\ pidFile = NoPid

\* C18: once the drain deadline has elapsed with a scan still running (the
\* warning is logged), stop() goes on: it removes the PID file and emits
\* daemon:stopped in the end, even if the scan never returns (unless a
\* further signal ends the process first).
C18_DrainDeadline ==
    \A p \in Procs :
        (sup[p].stop = "drain" /\ sup[p].warned) ~>
            \/ sup[p].stop = "done" /\ pidFile = NoPid /\ HasEvent("daemon:stopped", p)
            \/ ~sup[p].alive

CountIn(s, x) == Cardinality({i \in 1..Len(s) : s[i] = x})

\* C19: whatever the number of termination signals a process receives, and
\* whenever they arrive, daemon:stopping is emitted once and no step of stop()
\* runs twice; and when the process has exited through its signal handler
\* every step of stop() has run once.
C19_StopOnce ==
    \A p \in Procs :
        /\ CountIn(events, EvDaemon("daemon:stopping", p)) <= 1
        /\ \A x \in RangeOf(StopOrder) : CountIn(sup[p].steps, x) <= 1
        /\ (sup[p].signals > 0 /\ ~sup[p].alive) =>
              \A x \in RangeOf(StopOrderNoSnapshot) : CountIn(sup[p].steps, x) = 1

----------------------------------------------------------------------------
(* Scheduler: start(), loadSchedules(), catchUp(), triggerSchedule().      *)
(* Intervals are scaled to clock units.                                    *)

\* the first two entries of DEFAULT_SCHEDULES with distinct intervals
DEFAULT_SCHEDULES ==
    << [id |-> "design-tokens", scanner |-> "design-tokens",
        interval |-> ShortInterval, enabled |-> TRUE],
       [id |-> "license-headers", scanner |-> "license-headers",
        interval |-> LongInterval, enabled |-> TRUE] >>

\* { ...s } of a default entry: lastRun and nextRun are undefined
Fresh(d) == [id |-> d.id, scanner |-> d.scanner, interval |-> d.interval,
             enabled |-> d.enabled, lastRun |-> NoRun, nextRun |-> NoRun]

\* saved.find((s) => s.id === id): the first match, or none
Find(saved, id) ==
    LET hits == {i \in 1..Len(saved) : saved[i].id = id}
    IN  IF hits = {} THEN 0 ELSE CHOOSE i \in hits : \A j \in hits : i <= j

Coalesce_Default(v, has, dflt) == dflt

\* v ?? dflt, where has tells whether v is defined
Coalesce(v, has, dflt) == IF has THEN v ELSE dflt

\* loadSchedules: the defaults, each with the lastRun, nextRun and enabled of
\* the saved entry of its id; the defaults alone when the file is missing or
\* does not parse
loadSchedules(f) ==
    IF f.kind = "json"
    THEN [k \in 1..Len(DEFAULT_SCHEDULES) |->
            LET d == DEFAULT_SCHEDULES[k]
                i == Find(f.entries, d.id)
            IN  IF i = 0 THEN Fresh(d)
                ELSE [Fresh(d) EXCEPT !.lastRun = f.entries[i].lastRun,
                                      !.nextRun = f.entries[i].nextRun,
                                      !.enabled = Coalesce(f.entries[i].enabled,
                                                           f.entries[i].hasEnabled,
                                                           d.enabled)]]
    ELSE [k \in 1..Len(DEFAULT_SCHEDULES) |-> Fresh(DEFAULT_SCHEDULES[k])]

\* one call of queue.enqueue by the scheduler
Request(scanner, priority, now) ==
    [scanner |-> scanner, source |-> "scheduler", priority |-> priority, at |-> now]

Overdue_Inclusive(s, now) == now - s.lastRun >= s.interval

\* timeSinceLastRun > schedule.interval
Overdue(s, now) == now - s.lastRun > s.interval

\* the loop of catchUp from entry i on; w holds the queue, the schedules and
\* the requests made
RECURSIVE catchUpFrom(_, _, _)
catchUpFrom(w, i, now) ==
    IF i > Len(w.schedules) THEN w
    ELSE LET s == w.schedules[i]
         IN  IF ~s.enabled \/ s.lastRun = NoRun THEN catchUpFrom(w, i + 1, now)
             ELSE IF Overdue(s, now)
             THEN catchUpFrom(
                      [st |-> enqueue(w.st, s.scanner, LOW, NoFiles, now).st,
                       schedules |-> [w.schedules EXCEPT ![i].lastRun = now,
                                                         ![i].nextRun = now + s.interval],
                       requests |-> Append(w.requests, Request(s.scanner, LOW, now))],
                      i + 1, now)
             ELSE catchUpFrom(w, i + 1, now)

catchUp(st, schedules, requests, now) ==
    catchUpFrom([st |-> st, schedules |-> schedules, requests |-> requests], 1, now)

\* an entry of schedules.json: enabled may be missing (hasEnabled false),
\* lastRun and nextRun are NoRun when missing
Saved(id, interval, has, e, r, n) ==
    [id |-> id, interval |-> interval, hasEnabled |-> has, enabled |-> e,
     lastRun |-> r, nextRun |-> n]

\* JSON.stringify(this.schedules), as JSON.parse reads it back
SchedulesJson(schedules) ==
    [kind |-> "json",
     entries |-> [i \in 1..Len(schedules) |->
                     Saved(schedules[i].id, schedules[i].interval, TRUE,
                           schedules[i].enabled, schedules[i].lastRun,
                           schedules[i].nextRun)]]

\* schedules.json holding the entries es
JsonOf(es) == [kind |-> "json", entries |-> es]

queueFiles == <<config, epoch, listener, clock, file, pendingWrite, restorePc,
                restoreRaw, restoreRet, pidFile, sup, watcher, bus, registry, health, logs>>

\* the scheduler moves to s and the queue to st
SchedulerStep(s, st) ==
    /\ scheduler' = s
    /\ Install(st)
    /\ last' = OtherCall
    /\ UNCHANGED queueFiles

SchedulerCall(op, i, e, ret) == [op |-> op, id |-> i, enabled |-> e, ret |-> ret]

\* a timer armed for entry i by startSchedule; it closes over the entry object
\* of generation g; tracked: its handle is the value of this.timers for i
Timer(i, g, kind) == [id |-> i, gen |-> g, kind |-> kind, tracked |-> TRUE]

\* this.timers.has(id)
timersHas(timers, i) == \E u \in timers : u.id = i /\ u.tracked

\* this.timers.set(id, handle): the handle the map held for id is dropped
\* from the map, its timer stays armed
timersSet(timers, t) ==
    {[u EXCEPT !.tracked = u.tracked /\ u.id # t.id] : u \in timers} \cup {t}

\* clearInterval(this.timers.get(id)); this.timers.delete(id)
timersClear(timers, i) == {u \in timers : ~(u.id = i /\ u.tracked)}

\* startSchedule: the initial timeout is armed and stored
startSchedule(timers, i, g) == timersSet(timers, Timer(i, g, "timeout"))

\* the loop of start() over the entries from i on (lines 54-58)
RECURSIVE StartEnabled(_, _, _, _)
StartEnabled(timers, schedules, g, i) ==
    IF i > Len(schedules) THEN timers
    ELSE StartEnabled(IF schedules[i].enabled THEN startSchedule(timers, i, g)
                      ELSE timers,
                      schedules, g, i + 1)

\* saveSchedules is called: it suspends on pathExists
BeginSave(s, by) ==
    [s EXCEPT !.saves = @ \cup {[n |-> s.nextSave, by |-> by, pc |-> "exists",
                                 content |-> NoSchedulesFile]},
              !.nextSave = @ + 1]

MaySave == scheduler.nextSave <= MaxSaves

\* start(): started is set, loadSchedules suspends on pathExists
SchedulerStart ==
    /\ ~scheduler.started
    /\ scheduler.pc \in {"new", "started"}
    /\ SchedulerStep([scheduler EXCEPT !.started = TRUE, !.pc = "load",
                                       !.call = SchedulerCall("start", 0, FALSE, FALSE)],
                     QueueObject)

\* the file has been read: this.schedules is assigned new entry objects
LoadSchedules ==
    /\ scheduler.pc = "load"
    /\ SchedulerStep([scheduler EXCEPT !.pc = "catchUp", !.gen = @ + 1,
                                       !.schedules = loadSchedules(scheduler.file),
                                       !.call = SchedulerCall("load", 0, FALSE, FALSE)],
                     QueueObject)

\* catchUp runs its loop and suspends in saveSchedules
CatchUp ==
    /\ scheduler.pc = "catchUp"
    /\ MaySave
    /\ LET w == catchUp(QueueObject, scheduler.schedules, scheduler.requests, clock)
       IN  SchedulerStep(BeginSave([scheduler EXCEPT
                                        !.pc = "save", !.schedules = w.schedules,
                                        !.requests = w.requests,
                                        !.call = SchedulerCall("catchUp", 0, FALSE, FALSE)],
                                   "start"),
                         w.st)

\* pathExists has answered: this.schedules is serialised as it is now and
\* writeFile is called
SaveSchedules(v) ==
    /\ v \in scheduler.saves
    /\ v.pc = "exists"
    /\ SchedulerStep([scheduler EXCEPT
                         !.saves = (@ \ {v}) \cup
                                   {[v EXCEPT !.pc = "write",
                                              !.content = SchedulesJson(scheduler.schedules)]},
                         !.call = SchedulerCall("save", 0, FALSE, FALSE)],
                     QueueObject)

\* a writeFile has finished.  When it is the one catchUp awaited, start()
\* goes on and arms the timers of the enabled entries
SaveWritten(v) ==
    /\ v \in scheduler.saves
    /\ v.pc = "write"
    /\ LET s == [scheduler EXCEPT !.saves = @ \ {v}, !.file = v.content,
                                  !.call = SchedulerCall("written", 0, FALSE, FALSE)]
       IN  SchedulerStep(IF v.by = "start"
                         THEN [s EXCEPT !.pc = "started",
                                        !.timers = StartEnabled(s.timers, s.schedules,
                                                                s.gen, 1)]
                         ELSE s,
                         QueueObject)

\* stop(): started is cleared and every timer of the map is cancelled
SchedulerStop ==
    SchedulerStep([scheduler EXCEPT !.started = FALSE,
                                    !.timers = {u \in @ : ~u.tracked},
                                    !.call = SchedulerCall("stop", 0, FALSE, FALSE)],
                  QueueObject)

EvTriggered(s) == [type |-> "schedule:triggered", scheduleId |-> s.id,
                   scanner |-> s.scanner]

EvUpdated(s, e) == [type |-> "schedule:updated", scheduleId |-> s.id, enabled |-> e]

\* the entry object a timer closes over is stamped; it is an entry of
\* this.schedules only when no load has replaced the entries since
Stamp(schedules, t, g, now) ==
    IF t.gen = g
    THEN [schedules EXCEPT ![t.id].lastRun = now,
                           ![t.id].nextRun = now + schedules[t.id].interval]
    ELSE schedules

\* timer t fires: triggerSchedule emits, enqueues at NORMAL, stamps the entry
\* and suspends in saveSchedules; an initial timeout then arms the interval
\* and stores it
TriggerSchedule(t) ==
    /\ t \in scheduler.timers
    /\ MaySave
    /\ Len(scheduler.requests) < MaxRequests
    /\ LET d == DEFAULT_SCHEDULES[t.id]
           st == enqueue(emit(QueueObject, EvTriggered(d)), d.scanner, NORMAL,
                         NoFiles, clock).st
           timers == IF t.kind = "timeout"
                     THEN timersSet(scheduler.timers \ {t},
                                    Timer(t.id, t.gen, "interval"))
                     ELSE scheduler.timers
       IN  SchedulerStep(BeginSave([scheduler EXCEPT
                                        !.schedules = Stamp(@, t, scheduler.gen, clock),
                                        !.requests = Append(@, Request(d.scanner, NORMAL, clock)),
                                        !.timers = timers,
                                        !.call = SchedulerCall("trigger", t.id, FALSE, FALSE)],
                                   "trigger"),
                         st)

\* setEnabled(id, enabled), where id is the id of default entry i or, for i
\* beyond the defaults, an id no entry has
SetEnabled(i, e) ==
    IF i \in 1..Len(scheduler.schedules)
    THEN /\ MaySave
         /\ LET timers == IF ~scheduler.started THEN scheduler.timers
                          ELSE IF e /\ ~timersHas(scheduler.timers, i)
                          THEN startSchedule(scheduler.timers, i, scheduler.gen)
                          ELSE IF ~e /\ timersHas(scheduler.timers, i)
                          THEN timersClear(scheduler.timers, i)
                          ELSE scheduler.timers
            IN  SchedulerStep(BeginSave([scheduler EXCEPT
                                            !.schedules[i].enabled = e,
                                            !.timers = timers,
                                            !.call = SchedulerCall("setEnabled", i, e, TRUE)],
                                        "setEnabled"),
                              emit(QueueObject, EvUpdated(scheduler.schedules[i], e)))
    ELSE SchedulerStep([scheduler EXCEPT !.call = SchedulerCall("setEnabled", i, e, FALSE)],
                       QueueObject)

\* the lastRun values a schedules.json may hold: none, or a time up to now
LastRuns == {NoRun} \cup ((ClockStart - LongInterval - 1)..ClockStart)

\* what schedules.json may hold for a default entry: nothing, or an entry
SavedOf(d) ==
    {<<>>} \cup
    { <<Saved(d.id, d.interval, TRUE, e, r,
              IF r = NoRun THEN NoRun ELSE r + d.interval)>> :
      e \in BOOLEAN, r \in LastRuns }

SchedulesFiles ==
    {NoSchedulesFile, [kind |-> "malformed", entries |-> <<>>]} \cup
    { JsonOf(a \o b) : a \in SavedOf(DEFAULT_SCHEDULES[1]),
                       b \in SavedOf(DEFAULT_SCHEDULES[2]) }

CatchUpScanners == {"design-tokens", "lint"}

\* A scheduler is started on a queue that the command line also feeds, and
\* scans return.  The clock stands still: the ages of the saved lastRun
\* values are varied instead
NextCatchUp ==
    \/ SchedulerStart
    \/ LoadSchedules
    \/ CatchUp
    \/ \E v \in scheduler.saves : SaveSchedules(v)
    \/ \E v \in scheduler.saves : SaveWritten(v)
    \/ nextId <= MaxTasks /\ \E s \in CatchUpScanners : Enqueue(s, NORMAL, NoFiles)
    \/ \E t \in awaiting, ok \in BOOLEAN : Complete(t, ok)

InitScheduler(files) ==
    /\ InitBase({<<QueueConfig(DEFAULT_MAX_CONCURRENT, SmallTTL, FALSE), FileAbsent>>})
    /\ listener = NoListener
    /\ pidFile = NoPid
    /\ scheduler \in {NewSchedulerOn(f) : f \in files}
    /\ bus = NewBus
    /\ health = NewHealth
    /\ logs = NewLogs

InitCatchUp == InitScheduler(SchedulesFiles)

SpecCatchUp == InitCatchUp /\ [][NextCatchUp]_vars

\* the same, and the timers of the started scheduler fire
NextTrigger ==
    \/ NextCatchUp
    \/ \E t \in scheduler.timers : TriggerSchedule(t)

SpecTrigger == InitCatchUp /\ [][NextTrigger]_vars

CatchUpStep == scheduler.pc = "catchUp" /\ scheduler'.pc = "save"

\* C20: in a run of catchUp at time now, every entry that is enabled and has
\* now - lastRun > interval gets exactly one enqueue request, for its scanner,
\* with source scheduler and priority LOW, and lastRun = now and nextRun =
\* now + interval; every other entry gets no request and keeps its lastRun and
\* nextRun; nothing else is requested.
C20_CatchUp ==
    [][CatchUpStep =>
        LET before == scheduler.schedules
            after == scheduler'.schedules
            made == SubSeq(scheduler'.requests, Len(scheduler.requests) + 1,
                           Len(scheduler'.requests))
            For(i) == {k \in 1..Len(made) : made[k].scanner = before[i].scanner}
            Due(i) == /\ before[i].enabled
                      /\ before[i].lastRun # NoRun
                      /\ clock - before[i].lastRun > before[i].interval
        IN  /\ Len(after) = Len(before)
            /\ Len(made) = Cardinality({i \in 1..Len(before) : Due(i)})
            /\ \A k \in 1..Len(made) :
                  made[k].source = "scheduler" /\ made[k].priority = LOW
            /\ \A i \in 1..Len(before) :
                  IF Due(i)
                  THEN /\ Cardinality(For(i)) = 1
                       /\ after[i].lastRun = clock
                       /\ after[i].nextRun = clock + before[i].interval
                  ELSE /\ For(i) = {}
                       /\ after[i].lastRun = before[i].lastRun
                       /\ after[i].nextRun = before[i].nextRun
    ]_vars

\* a catch-up has run over one overdue entry and one entry that is enabled
\* but not overdue: one LOW request, one lastRun moved, one kept
C20_Witness ==
    /\ scheduler.pc = "save"
    /\ Len(scheduler.requests) = 1
    /\ scheduler.requests[1].priority = LOW
    /\ \E i, j \in 1..Len(scheduler.schedules) :
          /\ scheduler.schedules[i].lastRun = clock
          /\ scheduler.requests[1].scanner = scheduler.schedules[i].scanner
          /\ scheduler.schedules[j].enabled
          /\ scheduler.schedules[j].lastRun # NoRun
          /\ scheduler.schedules[j].lastRun < clock

TriggerStep ==
    /\ scheduler'.call.op = "trigger"
    /\ Len(scheduler'.requests) = Len(scheduler.requests) + 1

\* the saved file holds the lastRun and nextRun of every entry of the scheduler
FileHoldsRuns ==
    /\ scheduler.file.kind = "json"
    /\ Len(scheduler.file.entries) = Len(scheduler.schedules)
    /\ \A i \in 1..Len(scheduler.schedules) :
          /\ scheduler.file.entries[i].lastRun = scheduler.schedules[i].lastRun
          /\ scheduler.file.entries[i].nextRun = scheduler.schedules[i].nextRun

\* C21: every firing of a schedule timer emits schedule:triggered once,
\* requests one enqueue of the entry's scanner with source scheduler and
\* priority NORMAL and sets lastRun = now and nextRun = lastRun + interval; and
\* once the saves begun by the triggers have finished, the file holds the
\* lastRun and nextRun of every entry.
C21_TriggerPersists ==
    /\ [][TriggerStep =>
            LET i == scheduler'.call.id
                d == DEFAULT_SCHEDULES[i]
                made == Last(scheduler'.requests)
            IN  /\ CountIn(events', EvTriggered(d)) = CountIn(events, EvTriggered(d)) + 1
                /\ made = Request(d.scanner, NORMAL, clock)
                /\ made.source = "scheduler"
                /\ scheduler'.schedules[i].lastRun = clock
                /\ scheduler'.schedules[i].nextRun
                      = scheduler'.schedules[i].lastRun + d.interval
       ]_vars
    /\ [](scheduler.pc = "started" /\ scheduler.saves = {} => FileHoldsRuns)

\* what schedules.json may hold for a default entry that ran just now
SavedRecent(d) ==
    { <<Saved(d.id, d.interval, TRUE, e, ClockStart, ClockStart + d.interval)>> :
      e \in BOOLEAN }

RecentFiles ==
    {NoSchedulesFile} \cup
    { JsonOf(a \o b) : a \in SavedRecent(DEFAULT_SCHEDULES[1]),
                       b \in SavedRecent(DEFAULT_SCHEDULES[2]) }

\* ids passed to setEnabled: those of the defaults and one no entry has
SetEnabledIds == 1..(Len(DEFAULT_SCHEDULES) + 1)

\* A scheduler is started with nothing overdue; its timers fire and entries
\* are enabled and disabled through setEnabled
NextEnabled ==
    \/ SchedulerStart
    \/ LoadSchedules
    \/ CatchUp
    \/ \E v \in scheduler.saves : SaveSchedules(v)
    \/ \E v \in scheduler.saves : SaveWritten(v)
    \/ \E t \in scheduler.timers : TriggerSchedule(t)
    \/ \E i \in SetEnabledIds, e \in BOOLEAN : SetEnabled(i, e)

SpecEnabled == InitScheduler(RecentFiles) /\ [][NextEnabled]_vars

TimersOf(i) == {u \in scheduler.timers : u.id = i}

SetEnabledStep(ret) ==
    /\ scheduler'.call.op = "setEnabled"
    /\ scheduler'.call.ret = ret
    /\ ret => scheduler'.nextSave = scheduler.nextSave + 1
    /\ ~ret => scheduler.call # scheduler'.call

\* C22: once start() has returned and while the scheduler is running, an
\* entry has an armed timer exactly when it is enabled, and never more than
\* one; a timer fires only for an enabled entry; every setEnabled that returns
\* true begins a save, and once the saves have finished the file holds the
\* enabled flags; setEnabled on an unknown id returns false and changes
\* nothing.
C22_TimerIffEnabled ==
    /\ [](scheduler.started /\ scheduler.pc = "started" =>
             \A i \in 1..Len(scheduler.schedules) :
                 /\ (TimersOf(i) # {}) <=> scheduler.schedules[i].enabled
                 /\ Cardinality(TimersOf(i)) <= 1)
    /\ [](scheduler.pc = "started" /\ scheduler.saves = {} =>
             /\ scheduler.file.kind = "json"
             /\ \A i \in 1..Len(scheduler.schedules) :
                    scheduler.file.entries[i].enabled = scheduler.schedules[i].enabled)
    /\ [][TriggerStep => scheduler.schedules[scheduler'.call.id].enabled]_vars
    /\ [][SetEnabledStep(FALSE) =>
             /\ scheduler' = [scheduler EXCEPT !.call = scheduler'.call]
             /\ events' = events]_vars
    /\ [][SetEnabledStep(TRUE) =>
             /\ scheduler'.schedules[scheduler'.call.id].enabled = scheduler'.call.enabled
             /\ \E v \in scheduler'.saves \ scheduler.saves : v.by = "setEnabled"]_vars

\* A scheduler is started and stopped; its timers fire
NextStopped ==
    \/ SchedulerStart
    \/ LoadSchedules
    \/ CatchUp
    \/ \E v \in scheduler.saves : SaveSchedules(v)
    \/ \E v \in scheduler.saves : SaveWritten(v)
    \/ \E t \in scheduler.timers : TriggerSchedule(t)
    \/ SchedulerStop

SpecStopped == InitScheduler(SchedulesFiles) /\ [][NextStopped]_vars

\* C23: from the return of stop() until start() is called again no timer is
\* armed, no schedule:triggered is emitted and the scheduler requests no
\* enqueue, whether or not a start() was in progress when stop() was called.
C23_StoppedIsQuiet ==
    /\ [](~scheduler.started => scheduler.timers = {})
    /\ [][~scheduler.started /\ ~scheduler'.started =>
             /\ scheduler'.requests = scheduler.requests
             /\ \A i \in 1..Len(DEFAULT_SCHEDULES) :
                    CountIn(events', EvTriggered(DEFAULT_SCHEDULES[i]))
                       = CountIn(events, EvTriggered(DEFAULT_SCHEDULES[i]))]_vars

\* what a schedules.json written by any version of the program, or by hand,
\* may hold for a default entry: nothing, or an entry with or without an
\* enabled flag and a lastRun, and with an interval of its own
LoadableOf(d) ==
    {<<>>} \cup
    { <<Saved(d.id, d.interval + 1, has, e, r,
              IF r = NoRun THEN NoRun ELSE r + d.interval)>> :
      has \in BOOLEAN, e \in BOOLEAN, r \in {NoRun, ClockStart} }

\* an entry whose id is the id of no default
ForeignEntry == Saved("retired-scanner", LongInterval, TRUE, TRUE, ClockStart,
                      ClockStart + LongInterval)

LoadableFiles ==
    {NoSchedulesFile, [kind |-> "malformed", entries |-> <<>>]} \cup
    { JsonOf(x \o a \o b) : x \in {<<>>, <<ForeignEntry>>},
                            a \in LoadableOf(DEFAULT_SCHEDULES[1]),
                            b \in LoadableOf(DEFAULT_SCHEDULES[2]) } \cup
    { JsonOf(b \o a \o x) : x \in {<<>>, <<ForeignEntry>>},
                            a \in LoadableOf(DEFAULT_SCHEDULES[1]),
                            b \in LoadableOf(DEFAULT_SCHEDULES[2]) }

\* A scheduler is started on any such file
NextLoad ==
    \/ SchedulerStart
    \/ LoadSchedules
    \/ CatchUp

SpecLoad == InitScheduler(LoadableFiles) /\ [][NextLoad]_vars

LoadStep == scheduler.pc = "load" /\ scheduler'.pc = "catchUp"

\* the entries of the file with id x
SavedWith(f, x) == {e \in RangeOf(f.entries) : e.id = x}

\* C24: loadSchedules yields one entry per built-in default, in the order of
\* the defaults and with the default's id, scanner and interval; an entry whose
\* id is in a parsable file has the file entry's lastRun and nextRun, and its
\* enabled flag when the file entry has one, the default's otherwise; any other
\* entry, and every entry when the file is absent or unparsable, has no
\* lastRun and nextRun and the default's enabled flag.
C24_LoadMerge ==
    [][LoadStep =>
        LET f == scheduler.file
            got == scheduler'.schedules
        IN  /\ Len(got) = Len(DEFAULT_SCHEDULES)
            /\ \A k \in 1..Len(got) :
                  LET d == DEFAULT_SCHEDULES[k]
                      from == IF f.kind = "json" THEN SavedWith(f, d.id) ELSE {}
                  IN  /\ got[k].id = d.id
                      /\ got[k].scanner = d.scanner
                      /\ got[k].interval = d.interval
                      /\ from = {} =>
                            /\ got[k].lastRun = NoRun
                            /\ got[k].nextRun = NoRun
                            /\ got[k].enabled = d.enabled
                      /\ \A e \in from :
                            /\ got[k].lastRun = e.lastRun
                            /\ got[k].nextRun = e.nextRun
                            /\ got[k].enabled = IF e.hasEnabled THEN e.enabled
                                                ELSE d.enabled
    ]_vars

\* a file with an entry of no default, without the first default, and with
\* the second default disabled and run just now, has been loaded
C24_Witness ==
    /\ scheduler.pc = "catchUp"
    /\ scheduler.file.kind = "json"
    /\ ForeignEntry \in RangeOf(scheduler.file.entries)
    /\ SavedWith(scheduler.file, DEFAULT_SCHEDULES[1].id) = {}
    /\ \E e \in SavedWith(scheduler.file, DEFAULT_SCHEDULES[2].id) :
          e.hasEnabled /\ ~e.enabled /\ e.lastRun = ClockStart
    /\ ~scheduler.schedules[2].enabled
    /\ scheduler.schedules[2].lastRun = ClockStart
    /\ scheduler.schedules[1].enabled
    /\ Len(scheduler.schedules) = Len(DEFAULT_SCHEDULES)

----------------------------------------------------------------------------
(* FileWatcher: handleChange(), flushBatch(), stop().  Paths are numbers,  *)
(* a rule's pattern is the set of paths it matches, debounce times are     *)
(* scaled to clock units.                                                  *)

\* the scanner ids of the rules, in the order of localeCompare
ScannerOrder == <<"barrel-exports", "design-tokens">>

Rank(x) == CHOOSE i \in 1..Len(ScannerOrder) : ScannerOrder[i] = x

\* scanners.sort((a, b) => a.localeCompare(b))
RECURSIVE sortScanners(_)
sortScanners(s) ==
    IF s = <<>> THEN <<>>
    ELSE LET rest == sortScanners(Tail(s))
             before == SelectSeq(rest, LAMBDA y : Rank(y) <= Rank(Head(s)))
             after == SelectSeq(rest, LAMBDA y : Rank(y) > Rank(Head(s)))
         IN  before \o <<Head(s)>> \o after

NoDebounce == 0 - 1    \* a rule without debounceMs

\* the rules of the configuration the watcher is built with: one for two
\* scanners, one for one of the two, one for the same two listed the other
\* way round
WatcherRules ==
    << [pattern |-> {1, 2}, scanners |-> <<"design-tokens", "barrel-exports">>,
        debounceMs |-> LongDebounce],
       [pattern |-> {1}, scanners |-> <<"barrel-exports">>, debounceMs |-> NoDebounce],
       [pattern |-> {3}, scanners |-> <<"barrel-exports", "design-tokens">>,
        debounceMs |-> NoDebounce] >>

\* the paths the OS watcher reports; the last one matches no rule
WatchPaths == 1..4

\* findMatchingRules: the rules whose pattern matches, in their order
findMatchingRules(path) ==
    SelectSeq([i \in 1..Len(WatcherRules) |-> i],
              LAMBDA i : path \in WatcherRules[i].pattern)

batchKey_Unsorted(rule) == rule.scanners

\* rule.scanners.sort(...).join('+'): the sorted list stands for the joined
\* string
batchKey(rule) == sortScanners(rule.scanners)

\* rule.debounceMs ?? this.config.debounceMs
debounceOf(rule) == Coalesce(rule.debounceMs, rule.debounceMs # NoDebounce, DefaultDebounce)

\* this.batches.get(key), as the set of the batches stored under key
batchesGet(batches, key) == {b \in batches : b.key = key}

\* Set.add on the files of a batch, in insertion order
AddFile(files, path) == IF path \in RangeOf(files) THEN files ELSE Append(files, path)

handleRule_KeepTimer(batches, rule, path, now) ==
    LET key == batchKey(rule)
        found == batchesGet(batches, key)
    IN  IF found # {}
        THEN (batches \ found) \cup
             {[b EXCEPT !.files = AddFile(@, path)] : b \in found}
        ELSE batches \cup {[key |-> key, files |-> <<path>>, scanners |-> key,
                            due |-> now + debounceOf(rule)]}

\* the body of the loop of handleChange for one matching rule: the file joins
\* the batch of the rule's key and its timer is armed anew, or a batch is
\* opened.  The scanners of a new batch are the rule's list as sort left it
handleRule(batches, rule, path, now) ==
    LET key == batchKey(rule)
        found == batchesGet(batches, key)
    IN  IF found # {}
        THEN (batches \ found) \cup
             {[b EXCEPT !.files = AddFile(@, path), !.due = now + debounceOf(rule)] :
                 b \in found}
        ELSE batches \cup {[key |-> key, files |-> <<path>>, scanners |-> key,
                            due |-> now + debounceOf(rule)]}

\* the loop of handleChange over the matching rules from the k-th on
RECURSIVE handleRules(_, _, _, _, _)
handleRules(batches, matching, k, path, now) ==
    IF k > Len(matching) THEN batches
    ELSE handleRules(handleRule(batches, WatcherRules[matching[k]], path, now),
                     matching, k + 1, path, now)

EvChange(path) == [type |-> "watcher:change", file |-> path]

\* one call of queue.enqueue by the watcher
WatcherRequest(scanner, files, now) ==
    [scanner |-> scanner, source |-> "watcher", priority |-> HIGH, files |-> files,
     at |-> now]

\* the loop of flushBatch over the scanners of the batch from the k-th on; w
\* holds the queue and the requests made
RECURSIVE flushFrom(_, _, _, _)
flushFrom(w, b, k, now) ==
    IF k > Len(b.scanners) THEN w
    ELSE flushFrom([st |-> enqueue(w.st, b.scanners[k], HIGH, SomeFiles(b.files), now).st,
                    requests |-> Append(w.requests,
                                        WatcherRequest(b.scanners[k], b.files, now))],
                   b, k + 1, now)

\* the change of path, the n-th reported, as each matching rule sees it
Seen(path, n, now) ==
    LET matching == findMatchingRules(path)
    IN  {[path |-> path, at |-> now, rule |-> matching[k], n |-> n, k |-> k] :
            k \in 1..Len(matching)}

\* the scanners of rule i, as a set
ScannerSet(i) == RangeOf(WatcherRules[i].scanners)

\* the watcher moves to w and the queue to st
WatcherStep(w, st) ==
    /\ watcher' = w
    /\ Install(st)
    /\ last' = OtherCall
    /\ UNCHANGED <<config, epoch, listener, clock, file, pendingWrite, restorePc,
                   restoreRaw, restoreRet, pidFile, sup, scheduler, bus, registry, health, logs>>

\* start(): the OS watcher is created and its handlers are set
WatcherStart ==
    /\ ~watcher.started
    /\ watcher.pc = "none"
    /\ WatcherStep([watcher EXCEPT !.started = TRUE, !.flushed = <<>>], QueueObject)

\* the OS watcher reports a change, an add or an unlink of path
HandleChange(path) ==
    /\ watcher.started \/ watcher.pc = "closing"
    /\ watcher.changes < MaxChanges
    /\ WatcherStep([watcher EXCEPT
                       !.batches = handleRules(@, findMatchingRules(path), 1, path, clock),
                       !.changes = @ + 1, !.flushed = <<>>,
                       !.seen = @ \cup Seen(path, watcher.changes + 1, clock)],
                   emit(QueueObject, EvChange(path)))

\* the debounce timer of batch b fires: flushBatch
FlushBatch(b) ==
    /\ b \in watcher.batches
    /\ b.due <= clock
    /\ LET w == flushFrom([st |-> QueueObject, requests |-> watcher.requests], b, 1, clock)
       IN  WatcherStep([watcher EXCEPT !.batches = @ \ batchesGet(@, b.key),
                                       !.requests = w.requests,
                                       !.flushed = <<b>>,
                                       !.seen = {o \in @ : ScannerSet(o.rule)
                                                              # RangeOf(b.scanners)}],
                       w.st)

\* stop(): started is cleared, the timers are cancelled, the batches are
\* dropped, and close() of the OS watcher is awaited
WatcherStop ==
    /\ WatcherStep([watcher EXCEPT !.started = FALSE, !.batches = {},
                                   !.pc = IF watcher.started \/ watcher.pc = "closing"
                                          THEN "closing" ELSE "none",
                                   !.flushed = <<>>, !.seen = {}],
                   QueueObject)

\* close() has finished: this.watcher = null
WatcherClosed ==
    /\ watcher.pc = "closing"
    /\ WatcherStep([watcher EXCEPT !.pc = "none", !.flushed = <<>>], QueueObject)

\* a millisecond passes; a timer that is due fires first
WatcherTick ==
    /\ clock < ClockStart + WatchTicks
    /\ \A b \in watcher.batches : b.due > clock
    /\ clock' = clock + 1
    /\ watcher' = [watcher EXCEPT !.flushed = <<>>]
    /\ last' = OtherCall
    /\ UNCHANGED <<config, epoch, listener, queue, running, completed, processing,
                   awaiting, events, nextId, file, pendingSnap, pendingWrite, restorePc,
                   restoreRaw, restoreRet, pidFile, sup, scheduler, bus, registry, health, logs>>

\* A watcher is started; changes are reported and time passes
NextWatcher ==
    \/ WatcherStart
    \/ \E p \in WatchPaths : HandleChange(p)
    \/ \E b \in watcher.batches : FlushBatch(b)
    \/ WatcherTick

InitWatcher ==
    /\ InitBase({<<QueueConfig(DEFAULT_MAX_CONCURRENT, WatchTicks + 1, FALSE), FileAbsent>>})
    /\ listener = NoListener
    /\ pidFile = NoPid
    /\ scheduler = NewScheduler
    /\ bus = NewBus
    /\ health = NewHealth
    /\ logs = NewLogs

SpecWatcher == InitWatcher /\ [][NextWatcher]_vars

\* The same, with stop()
NextWatcherStop ==
    \/ WatcherStart
    \/ \E p \in WatchPaths : HandleChange(p)
    \/ \E b \in watcher.batches : FlushBatch(b)
    \/ WatcherTick
    \/ WatcherStop
    \/ WatcherClosed

SpecWatcherStop == InitWatcher /\ [][NextWatcherStop]_vars

FlushStep(b) ==
    /\ watcher'.flushed = <<b>>
    /\ b \in watcher.batches
    /\ b \notin watcher'.batches

\* the changes seen for the scanners of batch b
WindowOf(b) == {o \in watcher.seen : ScannerSet(o.rule) = RangeOf(b.scanners)}

\* the enqueue calls the step makes
RequestsMade == SubSeq(watcher'.requests, Len(watcher.requests) + 1, Len(watcher'.requests))

\* C25 as stated: a flush enqueues one task for every target scanner of the
\* batch.
C25_FlushEnqueuesAll ==
    [][\A b \in watcher.batches :
          FlushStep(b) => nextId' = nextId + Cardinality(RangeOf(b.scanners))]_vars

\* C25 as amended: the watcher calls enqueue only when a batch is flushed; a
\* batch is flushed when its debounce time, that of the rule of the last
\* change seen for its key, has passed since that change and not before; the
\* flush calls enqueue once for every target scanner of the batch, with source
\* watcher, priority HIGH and all the paths seen for the key since its last
\* flush.
C25_Debounce ==
    [][/\ watcher'.requests # watcher.requests => \E b \in watcher.batches : FlushStep(b)
       /\ \A b \in watcher.batches :
            FlushStep(b) =>
               LET win == WindowOf(b)
                   made == RequestsMade
               IN  /\ win # {}
                   /\ \A o \in win :
                         (\A q \in win : q.n < o.n \/ (q.n = o.n /\ q.k <= o.k)) =>
                            clock = o.at +
                                    (IF WatcherRules[o.rule].debounceMs = NoDebounce
                                     THEN DefaultDebounce
                                     ELSE WatcherRules[o.rule].debounceMs)
                   /\ Len(made) = Cardinality(RangeOf(b.scanners))
                   /\ {made[k].scanner : k \in 1..Len(made)} = RangeOf(b.scanners)
                   /\ \A k \in 1..Len(made) :
                         /\ made[k].source = "watcher"
                         /\ made[k].priority = HIGH
                         /\ RangeOf(made[k].files) = {o.path : o \in win}
                         /\ Len(made[k].files) = Cardinality({o.path : o \in win})
    ]_vars

\* a batch of two scanners that took two paths at two times has been flushed
\* into two enqueue calls
C25_Witness ==
    /\ watcher.flushed # <<>>
    /\ Len(watcher.flushed[1].files) = 2
    /\ Len(watcher.flushed[1].scanners) = 2
    /\ Len(watcher.requests) >= 2
    /\ Last(watcher.requests).files = watcher.flushed[1].files
    /\ Last(watcher.requests).at = clock
    /\ clock >= ClockStart + 1 + LongDebounce

\* C26: at any time no two open batches have the same key or the same set of
\* scanners, and every open batch has its own file set and timer: its files
\* are the paths seen by the rules of its scanner set since its last flush and
\* its timer was armed by the last of them; so a path matched by the rule for
\* two scanners and by the rule for one of them is in two batches, and paths
\* matched by rules listing the same scanners in any order are in one.
C26_BatchPerKey ==
    /\ \A a, b \in watcher.batches :
          (a.key = b.key \/ RangeOf(a.scanners) = RangeOf(b.scanners)) => a = b
    /\ \A b \in watcher.batches :
          /\ b.key = sortScanners(b.scanners)
          /\ RangeOf(b.files) = {o.path : o \in WindowOf(b)}
          /\ \E o \in WindowOf(b) :
                b.due = o.at + debounceOf(WatcherRules[o.rule])
    /\ \A o \in watcher.seen :
          \E b \in watcher.batches :
              RangeOf(b.scanners) = ScannerSet(o.rule) /\ o.path \in RangeOf(b.files)

\* one path is in the batch of two scanners and in the batch of one of them,
\* with different timers, and the batch of two also holds a path matched by
\* the rule that lists the two the other way round
C26_Witness ==
    \E a, b \in watcher.batches :
        /\ Len(a.scanners) = 2
        /\ Len(b.scanners) = 1
        /\ b.scanners[1] \in RangeOf(a.scanners)
        /\ \E p \in RangeOf(a.files) : p \in RangeOf(b.files) /\ p \in WatcherRules[1].pattern
        /\ \E p \in RangeOf(a.files) : p \in WatcherRules[3].pattern
        /\ a.due # b.due

----------------------------------------------------------------------------
(* EventBus: on(), onAny(), the unsubscribe handles, emit(), clear().  The *)
(* listeners modelled return or throw and leave the subscriptions alone.   *)

BusListeners == 1..MaxListeners
BusTypes == {"task:queued", "task:started"}

\* this.listeners.get(type), empty when the type has no Set
listenersOf(b, type) == IF type \in DOMAIN b.listeners THEN b.listeners[type] ELSE <<>>

AddListener_Front(ls, l) == IF l \in RangeOf(ls) THEN ls ELSE <<l>> \o ls

\* Set.add: a new element goes last, one already in the Set stays in place
AddListener(ls, l) == IF l \in RangeOf(ls) THEN ls ELSE Append(ls, l)

\* Set.delete
DeleteListener(ls, l) == SelectSeq(ls, LAMBDA x : x # l)

\* this.listeners with the Set of type replaced by ls
SetListeners(b, type, ls) ==
    [t \in DOMAIN b.listeners \cup {type} |-> IF t = type THEN ls ELSE b.listeners[t]]

Subscription(l, type) == [listener |-> l, type |-> type]

\* listener(event): the call is made; the listener may throw
listenerCall(b, l, type, via) ==
    [b EXCEPT !.calls = Append(@, [listener |-> l, type |-> type, via |-> via,
                                   emit |-> b.emits + 1]),
              !.escaped = l \in b.throws]

invoke_Uncaught(b, l, type, via) == listenerCall(b, l, type, via)

\* try { listener(event) } catch { }
invoke(b, l, type, via) == [listenerCall(b, l, type, via) EXCEPT !.escaped = FALSE]

\* for (const listener of ls), from the k-th on; an exception leaving the
\* body ends the loop
RECURSIVE notify(_, _, _, _, _)
notify(b, ls, k, type, via) ==
    IF k > Len(ls) \/ b.escaped THEN b
    ELSE notify(invoke(b, ls[k], type, via), ls, k + 1, type, via)

\* emit(type): the listeners of the type, then the global ones
busEmit(b, type) ==
    LET typed == notify(b, listenersOf(b, type), 1, type, "type")
        all == notify(typed, typed.globalListeners, 1, type, "any")
    IN  [all EXCEPT !.emits = @ + 1, !.emitted = type]

BusStep(b) ==
    /\ bus' = b
    /\ last' = OtherCall
    /\ UNCHANGED <<config, queue, running, completed, processing, awaiting, events,
                   clock, nextId, file, pendingSnap, pendingWrite, restorePc,
                   restoreRaw, restoreRet, epoch, listener, pidFile, sup, scheduler,
                   watcher, registry, health, logs>>

\* on(type, listener)
BusOn(type, l) ==
    /\ bus.ons < MaxOns
    /\ BusStep([bus EXCEPT
                   !.listeners = SetListeners(bus, type, AddListener(listenersOf(bus, type), l)),
                   !.regs = IF Subscription(l, type) \in RangeOf(@) THEN @
                            ELSE Append(@, Subscription(l, type)),
                   !.ons = @ + 1])

\* onAny(listener)
BusOnAny(l) ==
    /\ bus.ons < MaxOns
    /\ BusStep([bus EXCEPT
                   !.globalListeners = AddListener(@, l),
                   !.regs = IF Subscription(l, "any") \in RangeOf(@) THEN @
                            ELSE Append(@, Subscription(l, "any")),
                   !.ons = @ + 1])

\* the handle returned by on(type, listener) is called
BusOff(type, l) ==
    /\ l \in RangeOf(listenersOf(bus, type))
    /\ BusStep([bus EXCEPT
                   !.listeners = SetListeners(bus, type, DeleteListener(listenersOf(bus, type), l)),
                   !.regs = SelectSeq(@, LAMBDA r : r # Subscription(l, type))])

\* the handle returned by onAny(listener) is called
BusOffAny(l) ==
    /\ l \in RangeOf(bus.globalListeners)
    /\ BusStep([bus EXCEPT
                   !.globalListeners = DeleteListener(@, l),
                   !.regs = SelectSeq(@, LAMBDA r : r # Subscription(l, "any"))])

\* emit(type)
BusEmit(type) ==
    /\ bus.emits < MaxEmits
    /\ BusStep(busEmit(bus, type))

\* clear()
BusClear ==
    /\ bus.regs # <<>>
    /\ BusStep([bus EXCEPT !.listeners = [t \in {} |-> <<>>], !.globalListeners = <<>>,
                           !.regs = <<>>])

NextBus ==
    \/ \E t \in BusTypes, l \in BusListeners : BusOn(t, l)
    \/ \E l \in BusListeners : BusOnAny(l)
    \/ \E t \in BusTypes, l \in BusListeners : BusOff(t, l)
    \/ \E l \in BusListeners : BusOffAny(l)
    \/ \E t \in BusTypes : BusEmit(t)
    \/ BusClear

\* a bus of which no listener, the first listener or every listener throws
InitBus ==
    /\ InitBase({<<QueueConfig(DEFAULT_MAX_CONCURRENT, SmallTTL, FALSE), FileAbsent>>})
    /\ listener = NoListener
    /\ pidFile = NoPid
    /\ scheduler = NewScheduler
    /\ health = NewHealth
    /\ logs = NewLogs
    /\ \E thrown \in {{}, {1}, BusListeners} : bus = [NewBus EXCEPT !.throws = thrown]

SpecBus == InitBus /\ [][NextBus]_vars

\* a step that is one emit call
EmitStep == bus'.emits = bus.emits + 1

\* the listener calls the emit of this step made, in the order of the calls
EmitCalls == SubSeq(bus'.calls, Len(bus.calls) + 1, Len(bus'.calls))

\* the calls among cs made to listener l through the per-type Set ("type")
\* or the global Set ("any")
CallsTo(cs, l, via) == SelectSeq(cs, LAMBDA c : c.listener = l /\ c.via = via)

\* C28: an emit lets no listener's exception reach its caller, and it calls
\* every listener subscribed to the event's type and every global listener
\* exactly once for the event, whichever of the listeners throw.
C28_EmitIsolates ==
    [][EmitStep =>
        /\ ~bus'.escaped
        /\ \A c \in RangeOf(EmitCalls) : c.type = bus'.emitted /\ c.emit = bus'.emits
        /\ \A l \in BusListeners :
              /\ Len(CallsTo(EmitCalls, l, "type")) =
                     IF l \in RangeOf(listenersOf(bus, bus'.emitted)) THEN 1 ELSE 0
              /\ Len(CallsTo(EmitCalls, l, "any")) =
                     IF l \in RangeOf(bus.globalListeners) THEN 1 ELSE 0]_vars

\* an emit has called a throwing per-type listener, then another per-type
\* listener and then a global listener
C28_Witness ==
    /\ bus.emits > 0
    /\ ~bus.escaped
    /\ Len(bus.calls) = 3
    /\ bus.calls[1].listener \in bus.throws /\ bus.calls[1].via = "type"
    /\ bus.calls[2].listener \notin bus.throws /\ bus.calls[2].via = "type"
    /\ bus.calls[3].listener \notin bus.throws /\ bus.calls[3].via = "any"

\* the subscriptions in force that an event of the type reaches, in the order
\* in which they were made
RegsFor(b, type) == SelectSeq(b.regs, LAMBDA r : r.type \in {type, "any"})

\* the subscriptions behind a sequence of listener calls
SubscriptionsOf(cs) ==
    [k \in 1..Len(cs) |->
        Subscription(cs[k].listener, IF cs[k].via = "any" THEN "any" ELSE cs[k].type)]

\* C29 as stated: an emit calls the subscribers of the event, per-type and
\* global alike, in the order in which they subscribed.
C29_RegistrationOrder ==
    [][EmitStep => SubscriptionsOf(EmitCalls) = RegsFor(bus, bus'.emitted)]_vars

\* C29: within the emit call, the listeners subscribed to the event's type are
\* called in the order in which they subscribed, and after them the global
\* listeners in the order in which they subscribed.
C29_TypeThenGlobal ==
    [][EmitStep =>
        SubscriptionsOf(EmitCalls) =
            SelectSeq(bus.regs, LAMBDA r : r.type = bus'.emitted)
                \o SelectSeq(bus.regs, LAMBDA r : r.type = "any")]_vars

\* an emit has called a per-type listener before a global listener that had
\* subscribed earlier, and the two global listeners in subscription order
C29_Witness ==
    /\ bus.emits > 0
    /\ Len(bus.calls) = 3
    /\ Len(bus.regs) = 3
    /\ bus.regs[1].type = "any" /\ bus.regs[2].type = bus.emitted /\ bus.regs[3].type = "any"
    /\ SubscriptionsOf(bus.calls) = <<bus.regs[2], bus.regs[1], bus.regs[3]>>

----------------------------------------------------------------------------
(* ScannerRegistry: register(), all(), forProject(), runAll().  A scanner  *)
(* is its id and its projects; what its scan() does is chosen at the call. *)

ScannerIds == 1..MaxScanners

\* Scanner.projects is undefined
NoProjects == {"*"}

ProjectNames == {"dcyfr-labs", "dcyfr-ai"}
ScannerProjects == {NoProjects, {"dcyfr-labs"}}

\* context.project is undefined
NoProject == "undefined"

\* the values of context.project: undefined, the empty string, a name
ContextProjects == {NoProject, ""} \cup ProjectNames

\* the truthiness of context.project
Truthy(project) == project # NoProject /\ project # ""

\* this.scanners.has(id)
scannersHas(r, id) == \E k \in 1..Len(r.scanners) : r.scanners[k].id = id

\* all()
all(r) == r.scanners

\* forProject(project)
forProject(r, project) ==
    SelectSeq(all(r), LAMBDA s : s.projects = NoProjects \/ project \in s.projects)

\* results.push(result)
pushResult(r, s, status, threw) ==
    [r EXCEPT !.results = Append(@, [scanner |-> s.id, status |-> status, threw |-> threw]),
              !.todo = Tail(@)]

scanCatch_Rethrow(r, s) == [r EXCEPT !.escaped = TRUE, !.pc = "returned", !.todo = <<>>]

\* catch (error) { results.push({scanner: scanner.id, status: 'error', ...}) }
scanCatch(r, s) == pushResult(r, s, "error", TRUE)

ScanStatuses == {"pass"}

RegistryStep(r) ==
    /\ registry' = r
    /\ last' = OtherCall
    /\ UNCHANGED <<config, queue, running, completed, processing, awaiting, events,
                   clock, nextId, file, pendingSnap, pendingWrite, restorePc,
                   restoreRaw, restoreRet, epoch, listener, pidFile, sup, scheduler,
                   watcher, bus, health, logs>>

\* register(scanner)
Register(id, projects) ==
    IF scannersHas(registry, id)
    THEN RegistryStep([registry EXCEPT !.rejected = TRUE])
    ELSE RegistryStep([registry EXCEPT
                          !.scanners = Append(@, [id |-> id, projects |-> projects])])

\* runAll(context), up to the first await
RunAll(project) ==
    /\ registry.pc \in {"idle", "returned"}
    /\ registry.runs < MaxRuns
    /\ RegistryStep([registry EXCEPT
                        !.pc = "running",
                        !.runs = @ + 1,
                        !.context = project,
                        !.atCall = registry.scanners,
                        !.todo = IF Truthy(project) THEN forProject(registry, project)
                                 ELSE all(registry),
                        !.results = <<>>])

\* await scanner.scan(context) returns a result
ScanReturns(status) ==
    /\ registry.pc = "running"
    /\ registry.todo # <<>>
    /\ RegistryStep(pushResult(registry, Head(registry.todo), status, FALSE))

\* await scanner.scan(context) throws
ScanThrows ==
    /\ registry.pc = "running"
    /\ registry.todo # <<>>
    /\ RegistryStep(scanCatch(registry, Head(registry.todo)))

\* return results
RunAllReturns ==
    /\ registry.pc = "running"
    /\ registry.todo = <<>>
    /\ RegistryStep([registry EXCEPT !.pc = "returned"])

NextRegistry ==
    \/ \E id \in ScannerIds, ps \in ScannerProjects : Register(id, ps)
    \/ \E p \in ContextProjects : RunAll(p)
    \/ \E st \in ScanStatuses : ScanReturns(st)
    \/ ScanThrows
    \/ RunAllReturns

InitRegistry ==
    /\ InitBase({<<QueueConfig(DEFAULT_MAX_CONCURRENT, SmallTTL, FALSE), FileAbsent>>})
    /\ listener = NoListener
    /\ pidFile = NoPid
    /\ scheduler = NewScheduler
    /\ bus = NewBus
    /\ health = NewHealth
    /\ logs = NewLogs

SpecRegistry == InitRegistry /\ [][NextRegistry]_vars

\* the scanners among scs that a runAll for the project applies to: all of
\* them when no project is set, else those without a project list or with
\* the project in their list
Applicable(scs, project) ==
    SelectSeq(scs, LAMBDA s :
        Truthy(project) => (s.projects = NoProjects \/ project \in s.projects))

\* C30: runAll never rejects; when it returns, its results are one per
\* scanner applicable at the call, in registration order, the result of a
\* scanner that threw has status error and that scanner's id, and the
\* scanners after a throwing one have been run as well.
C30_RunAll ==
    /\ [](~registry.escaped)
    /\ [](registry.pc = "returned" =>
            LET app == Applicable(registry.atCall, registry.context)
            IN  /\ Len(registry.results) = Len(app)
                /\ \A k \in 1..Len(app) :
                      /\ registry.results[k].scanner = app[k].id
                      /\ registry.results[k].threw => registry.results[k].status = "error")

\* a runAll for a project has returned: it skipped a scanner of another
\* project, its first scanner threw and a later one, without a project list,
\* returned a result
C30_Witness ==
    /\ registry.pc = "returned"
    /\ Truthy(registry.context)
    /\ Len(registry.atCall) = 3
    /\ Len(registry.results) = 2
    /\ registry.results[1].threw
    /\ ~registry.results[2].threw
    /\ \E k \in 1..3 : registry.atCall[k].projects = NoProjects
                        /\ registry.atCall[k].id = registry.results[2].scanner

----------------------------------------------------------------------------
(* Health aggregator: calculateHealthScore(), getScannerWeight() and       *)
(* buildHealthSnapshot().  Scores are integers; the overall score is kept  *)
(* in tenths, so 707 is the score 70.7.                                    *)

\* metrics[name] is undefined
NoMetric == 0 - 1

ResultStatuses == {"pass", "warn", "fail", "error", "skipped"}

\* the metrics of a result: none, compliance, usage, both
ResultMetrics ==
    {[compliance |-> c, usage |-> u] : c \in {NoMetric, 42}, u \in {NoMetric, 60}}

\* the scanner ids of the results, by position: ids without a weight of their
\* own, or ids with one
PlainIds == <<"x", "y", "z">>
WeightedIds == <<"design-tokens", "barrel-exports", "license-headers">>
IdOrders == {PlainIds, WeightedIds}

\* getScannerWeight(scanner): weights[scanner] ?? 1
getScannerWeight(scanner) ==
    CASE scanner \in {"design-tokens", "dependency-audit", "test-data-guardian",
                      "api-compliance"} -> 3
      [] scanner \in {"barrel-exports", "pagelayout", "docs-generator", "code-smell"} -> 2
      [] OTHER -> 1

\* the switch on result.status in calculateHealthScore
statusScore(status) ==
    CASE status = "pass" -> 100
      [] status = "warn" -> 70
      [] status = "fail" -> 30
      [] OTHER -> 0

\* the score calculateHealthScore gives a result that is not skipped
scoreOf(r) ==
    IF r.compliance # NoMetric THEN r.compliance
    ELSE IF r.usage # NoMetric THEN r.usage
    ELSE statusScore(r.status)

\* totalWeight and weightedScore after the loop over results[k..]
RECURSIVE totalWeight(_, _)
totalWeight(results, k) ==
    IF k > Len(results) THEN 0
    ELSE (IF results[k].status = "skipped" THEN 0 ELSE getScannerWeight(results[k].scanner))
         + totalWeight(results, k + 1)

RECURSIVE weightedScore(_, _)
weightedScore(results, k) ==
    IF k > Len(results) THEN 0
    ELSE (IF results[k].status = "skipped" THEN 0
          ELSE scoreOf(results[k]) * getScannerWeight(results[k].scanner))
         + weightedScore(results, k + 1)

RoundTenths_Down(sum, weight) == (10 * sum) \div weight

\* Math.round((sum / weight) * 10), the tenths of the rounded score
RoundTenths(sum, weight) == (20 * sum + weight) \div (2 * weight)

\* calculateHealthScore(results), in tenths
calculateHealthScore(results) ==
    IF Len(results) = 0 THEN 1000
    ELSE IF totalWeight(results, 1) > 0
         THEN RoundTenths(weightedScore(results, 1), totalWeight(results, 1))
         ELSE 1000

\* the score of a scanner's entry in the snapshot:
\* compliance ?? usage ?? (pass ? 100 : warn ? 70 : 30)
entryScore(r) ==
    IF r.compliance # NoMetric THEN r.compliance
    ELSE IF r.usage # NoMetric THEN r.usage
    ELSE IF r.status = "pass" THEN 100
    ELSE IF r.status = "warn" THEN 70
    ELSE 30

\* the last result of the scanner: scanners[result.scanner] is overwritten
LastOf(results, id) ==
    results[CHOOSE k \in 1..Len(results) :
                /\ results[k].scanner = id
                /\ \A j \in (k + 1)..Len(results) : results[j].scanner # id]

\* overall.status
overallStatus(score) ==
    IF score >= 900 THEN "healthy" ELSE IF score >= 700 THEN "degraded" ELSE "critical"

\* buildHealthSnapshot(results)
buildHealthSnapshot(h) ==
    LET score == calculateHealthScore(h.results)
    IN  [h EXCEPT !.built = TRUE,
                  !.overall = score,
                  !.status = overallStatus(score),
                  !.scanners = [id \in {h.results[k].scanner : k \in 1..Len(h.results)} |->
                                   [score |-> entryScore(LastOf(h.results, id)),
                                    status |-> LastOf(h.results, id).status]]]

HealthStep(h) ==
    /\ health' = h
    /\ last' = OtherCall
    /\ UNCHANGED <<config, queue, running, completed, processing, awaiting, events,
                   clock, nextId, file, pendingSnap, pendingWrite, restorePc,
                   restoreRaw, restoreRet, epoch, listener, pidFile, sup, scheduler,
                   watcher, bus, registry, logs>>

\* a scanner's result joins the results (registry.ts 80-81)
PushScanResult(status, metrics) ==
    /\ ~health.built
    /\ Len(health.results) < MaxResults
    /\ HealthStep([health EXCEPT
                      !.results = Append(@, [scanner |-> health.ids[Len(health.results) + 1],
                                             status |-> status,
                                             compliance |-> metrics.compliance,
                                             usage |-> metrics.usage])])

\* buildHealthSnapshot(results)
BuildHealthSnapshot ==
    /\ ~health.built
    /\ HealthStep(buildHealthSnapshot(health))

NextHealth ==
    \/ \E st \in ResultStatuses, ms \in ResultMetrics : PushScanResult(st, ms)
    \/ BuildHealthSnapshot

\* the scanners that report, in order; past the third the first reports again
InitHealth ==
    /\ InitBase({<<QueueConfig(DEFAULT_MAX_CONCURRENT, SmallTTL, FALSE), FileAbsent>>})
    /\ listener = NoListener
    /\ pidFile = NoPid
    /\ scheduler = NewScheduler
    /\ bus = NewBus
    /\ logs = NewLogs
    /\ \E ids \in IdOrders :
          health = [NewHealth EXCEPT
                       !.ids = [k \in 1..(MaxResults + 1) |-> ids[((k - 1) % 3) + 1]]]

SpecHealth == InitHealth /\ [][NextHealth]_vars

\* the component score of a result as the health aggregator is specified:
\* compliance, else usage, else by status
ComponentScore(r) ==
    IF r.compliance # NoMetric THEN r.compliance
    ELSE IF r.usage # NoMetric THEN r.usage
    ELSE CASE r.status = "pass" -> 100
           [] r.status = "warn" -> 70
           [] r.status = "fail" -> 30
           [] r.status = "error" -> 0
           [] OTHER -> 0

RECURSIVE SumSeq(_)
SumSeq(ns) == IF ns = <<>> THEN 0 ELSE Head(ns) + SumSeq(Tail(ns))

\* the results that count for the overall score
NonSkipped(results) == SelectSeq(results, LAMBDA r : r.status # "skipped")

\* the weights of the results and their sum
WeightSum(results) ==
    SumSeq([k \in 1..Len(results) |-> getScannerWeight(results[k].scanner)])

\* t is the number x / w rounded to one decimal place (halves up), in tenths
IsRoundedMean(t, x, w) == 2 * t * w <= 20 * x + w /\ 20 * x + w < 2 * (t + 1) * w

\* C31: in a snapshot built from results of distinct scanners, the score of
\* each scanner that was not skipped is its compliance metric if present, else
\* its usage metric if present, else 100, 70, 30 or 0 for pass, warn, fail or
\* error, and the overall score is the weighted mean of these same scores.
C31_ComponentScores ==
    health.built =>
        LET rs == NonSkipped(health.results)
        IN  /\ \A k \in 1..Len(rs) :
                  (\A j \in 1..Len(health.results) :
                        health.results[j].scanner = rs[k].scanner => health.results[j] = rs[k])
                  => health.scanners[rs[k].scanner].score = ComponentScore(rs[k])
            /\ (/\ Len(rs) > 0
                /\ \A j, k \in 1..Len(health.results) :
                      j # k => health.results[j].scanner # health.results[k].scanner)
               => IsRoundedMean(health.overall,
                      SumSeq([k \in 1..Len(rs) |->
                                 health.scanners[rs[k].scanner].score
                                     * getScannerWeight(rs[k].scanner)]),
                      WeightSum(rs))

\* scenario S6: pass, warn, and fail with compliance 42, all of weight 1
S6Results ==
    <<[scanner |-> "x", status |-> "pass", compliance |-> NoMetric, usage |-> NoMetric],
      [scanner |-> "y", status |-> "warn", compliance |-> NoMetric, usage |-> NoMetric],
      [scanner |-> "z", status |-> "fail", compliance |-> 42, usage |-> NoMetric]>>

\* C32: when some result is not skipped, the overall score of a snapshot is the
\* weighted mean of the component scores of the results that are not skipped,
\* with the weight of each result's scanner id, rounded to one decimal place;
\* the overall status is healthy from 90, degraded from 70 and critical
\* below; for scenario S6 the score is 70.7 and the status degraded.
C32_OverallScore ==
    health.built =>
        LET rs == NonSkipped(health.results)
        IN  /\ Len(rs) > 0 =>
                  IsRoundedMean(health.overall,
                      SumSeq([k \in 1..Len(rs) |->
                                 ComponentScore(rs[k]) * getScannerWeight(rs[k].scanner)]),
                      WeightSum(rs))
            /\ health.status = IF health.overall >= 900 THEN "healthy"
                               ELSE IF health.overall >= 700 THEN "degraded"
                               ELSE "critical"
            /\ health.results = S6Results =>
                  health.overall = 707 /\ health.status = "degraded"

\* the snapshot of scenario S6 has been built
C32_Witness ==
    /\ health.built
    /\ health.results = S6Results
    /\ health.overall = 707

----------------------------------------------------------------------------
(* Log rotation: rotateLogIfNeeded(), rotateLog(), and the supervisor's    *)
(* appendLog().  Sizes are counted in lines.  One rotation runs at a time. *)

LogNames == 1..LogMaxFiles

Exists(f) == f.id # 0

\* stats.size
SizeOf(f) == Len(f.content)

\* the files of the log directory
FilesOf(l) == [log |-> l.log, rotated |-> l.rotated]

LogsStep(l) ==
    /\ logs' = l
    /\ last' = OtherCall
    /\ UNCHANGED <<config, queue, running, completed, processing, awaiting, events,
                   clock, nextId, file, pendingSnap, pendingWrite, restorePc,
                   restoreRaw, restoreRet, epoch, listener, pidFile, sup, scheduler,
                   watcher, bus, registry, health>>

\* rotateLogIfNeeded: await pathExists(logFilePath)
RotateCheck ==
    /\ logs.pc = "idle"
    /\ logs.checks < MaxChecks
    /\ LogsStep([logs EXCEPT !.checks = @ + 1,
                             !.atStart = FilesOf(logs),
                             !.ret = IF Exists(logs.log) THEN "none" ELSE "false",
                             !.pc = IF Exists(logs.log) THEN "stat" ELSE "idle"])

\* rotateLogIfNeeded: await stat(logFilePath); stat of a missing file throws
RotateStat ==
    /\ logs.pc = "stat"
    /\ LogsStep(IF Exists(logs.log) /\ SizeOf(logs.log) >= LogMaxSize
                THEN [logs EXCEPT !.pc = "oldest"]
                ELSE [logs EXCEPT !.pc = "idle", !.ret = "false"])

\* rotateLog: if (await pathExists(oldest)) await unlink(oldest)
RotateOldest ==
    /\ logs.pc = "oldest"
    /\ LogsStep([logs EXCEPT !.rotated[LogMaxFiles] = NoLogFile,
                             !.pc = IF LogMaxFiles > 1 THEN "shift" ELSE "rename",
                             !.i = LogMaxFiles - 1])

shift_Skip(rotated, i) == rotated

\* rename(log.i, log.(i+1))
shift(rotated, i) == [rotated EXCEPT ![i + 1] = rotated[i], ![i] = NoLogFile]

\* rotateLog: one round of the loop: if (await pathExists(from)) await rename(from, to)
RotateShift ==
    /\ logs.pc = "shift"
    /\ LogsStep([logs EXCEPT
                    !.rotated = IF Exists(logs.rotated[logs.i]) THEN shift(@, logs.i) ELSE @,
                    !.i = @ - 1,
                    !.pc = IF logs.i > 1 THEN "shift" ELSE "rename"])

\* rotateLog: await rename(logFilePath, log.1); with no log it throws and
\* rotateLogIfNeeded returns false
RotateRename ==
    /\ logs.pc = "rename"
    /\ LogsStep(IF Exists(logs.log)
                THEN [logs EXCEPT !.rotated[1] = logs.log, !.log = NoLogFile,
                                  !.pc = "create"]
                ELSE [logs EXCEPT !.pc = "idle", !.ret = "false"])

\* writeFile(path, ''): the file is created, or truncated if it exists
writeEmpty(l) ==
    IF Exists(l.log) THEN [l EXCEPT !.log.content = <<>>]
    ELSE [l EXCEPT !.log = [id |-> l.nextFile, content |-> <<>>], !.nextFile = @ + 1]

\* rotateLog: await writeFile(logFilePath, ''); rotateLogIfNeeded returns true
RotateCreate ==
    /\ logs.pc = "create"
    /\ LogsStep([writeEmpty(logs) EXCEPT !.pc = "idle", !.ret = "true"])

\* an appendLog call in flight: its line and the file appendFile has opened
AppendOf(line, id) == [line |-> line, file |-> id]

\* appendFile opens the log for appending and creates it if it is missing
openLog(l, line) ==
    IF Exists(l.log)
    THEN [l EXCEPT !.appends = @ \cup {AppendOf(line, l.log.id)}, !.lines = line]
    ELSE [l EXCEPT !.log = [id |-> l.nextFile, content |-> <<>>],
                   !.nextFile = @ + 1,
                   !.appends = @ \cup {AppendOf(line, l.nextFile)},
                   !.lines = line]

\* appendFile writes the line at the end of the file it opened, whatever the
\* name of that file is by now; a file without a name takes the line with it
writeLine(l, a) ==
    [l EXCEPT !.appends = @ \ {a},
              !.log = IF @.id = a.file THEN [@ EXCEPT !.content = Append(@, a.line)] ELSE @,
              !.rotated = [n \in LogNames |->
                              IF @[n].id = a.file
                              THEN [@[n] EXCEPT !.content = Append(@, a.line)]
                              ELSE @[n]]]

\* log(): void this.appendLog(line), up to the opening of the file
AppendOpen ==
    /\ logs.lines < MaxLines
    /\ LogsStep(openLog(logs, logs.lines + 1))

\* appendLog: the write of appendFile
AppendWrite(a) ==
    /\ a \in logs.appends
    /\ LogsStep(writeLine(logs, a))

\* appendLog from log() to the end of appendFile, with no rotation in progress
AppendLine ==
    /\ logs.pc = "idle"
    /\ logs.appends = {}
    /\ logs.lines < MaxLines
    /\ LogsStep(writeLine(openLog(logs, logs.lines + 1),
                           AppendOf(logs.lines + 1,
                                    IF Exists(logs.log) THEN logs.log.id ELSE logs.nextFile)))

Rotate ==
    \/ RotateCheck
    \/ RotateStat
    \/ RotateOldest
    \/ RotateShift
    \/ RotateRename
    \/ RotateCreate

\* rotations with the appends between them
NextRotate ==
    \/ Rotate
    \/ AppendLine

\* rotations with the appends in any interleaving
NextRotateAppend ==
    \/ Rotate
    \/ AppendOpen
    \/ \E a \in logs.appends : AppendWrite(a)

\* the lines of an earlier run: file n holds the line 0 - n
OldLog(n, present) ==
    IF n \in present THEN [id |-> n, content |-> <<0 - n>>] ELSE NoLogFile

\* the log directory of an earlier run: any of log.1 .. log.N, and no log or
\* a log with one old line
InitLogs ==
    /\ InitBase({<<QueueConfig(DEFAULT_MAX_CONCURRENT, SmallTTL, FALSE), FileAbsent>>})
    /\ listener = NoListener
    /\ pidFile = NoPid
    /\ scheduler = NewScheduler
    /\ bus = NewBus
    /\ health = NewHealth
    /\ \E present \in SUBSET (0..LogMaxFiles) :
          logs = [NewLogs EXCEPT
                     !.log = IF 0 \in present
                             THEN [id |-> LogMaxFiles + 1, content |-> <<0>>]
                             ELSE NoLogFile,
                     !.rotated = [n \in LogNames |-> OldLog(n, present)],
                     !.nextFile = LogMaxFiles + 2]

SpecRotate == InitLogs /\ [][NextRotate]_vars

SpecRotateAppend == InitLogs /\ [][NextRotateAppend]_vars

\* a step in which rotateLogIfNeeded returns
RotateReturns == logs'.pc = "idle" /\ (logs.pc # "idle" \/ logs'.checks # logs.checks)

\* the files of the log directory, under whatever name
AllFiles(l) == {l.log} \cup {l.rotated[n] : n \in LogNames}

\* C33: with no append during the call, rotateLogIfNeeded rotates exactly when
\* the log exists and its size is at least the limit.  Right after a rotation
\* log.1 holds the content the log had, log.(i+1) holds the content log.i had,
\* for every i below N whose log.i existed, the file that was log.N is gone,
\* and the log exists and is empty.  Without a rotation no file has changed.
C33_Rotation ==
    [][RotateReturns =>
        LET before == logs'.atStart
            due == Exists(before.log) /\ SizeOf(before.log) >= LogMaxSize
        IN  /\ logs'.ret = "true" <=> due
            /\ due =>
                  /\ Exists(logs'.rotated[1])
                  /\ logs'.rotated[1].content = before.log.content
                  /\ \A i \in 1..(LogMaxFiles - 1) :
                        Exists(before.rotated[i]) =>
                            /\ Exists(logs'.rotated[i + 1])
                            /\ logs'.rotated[i + 1].content = before.rotated[i].content
                  /\ Exists(before.rotated[LogMaxFiles]) =>
                        \A f \in AllFiles(logs') : f.id # before.rotated[LogMaxFiles].id
                  /\ Exists(logs'.log)
                  /\ logs'.log.content = <<>>
            /\ ~due => FilesOf(logs') = before]_vars

\* a rotation has just returned: log.1 and log.N existed before it, the log
\* held lines of this run, and log.1 now holds them
C33_Witness ==
    /\ logs.pc = "idle"
    /\ logs.ret = "true"
    /\ Exists(logs.atStart.rotated[1])
    /\ Exists(logs.atStart.rotated[LogMaxFiles])
    /\ SizeOf(logs.atStart.log) >= LogMaxSize
    /\ logs.rotated[1].content = logs.atStart.log.content
    /\ logs.log.content = <<>>

\* the lines handed to appendLog whose appendFile has ended
Written(l) == {n \in 1..l.lines : \A a \in l.appends : a.line # n}

\* the lines of a file
LinesOf(f) == {f.content[k] : k \in 1..Len(f.content)}

\* C40: a line of this run whose append has ended is in the log or in one of
\* its rotated copies, whatever rotation steps the append was interleaved
\* with: after the rotation during which it was appended it is in the new log
\* or in log.1, and fewer rotations are made than it takes to rotate it out.
C40_NoLineLost ==
    \A n \in Written(logs) : \E f \in AllFiles(logs) : n \in LinesOf(f)

----------------------------------------------------------------------------
(* The order in which the executor picks, with restored tasks in the queue *)

\* a task an earlier process left in queue.json a millisecond ago
Persisted(n, scanner, priority) ==
    [id |-> PrevIdBase + n, scanner |-> scanner, priority |-> priority,
     files |-> NoFiles, createdAt |-> ClockStart - 1, status |-> "queued",
     error |-> NoError]

\* queue.json as earlier processes may have left it: in queue order, or in an
\* order that is not sorted by priority
PickStarts ==
    { <<QueueConfig(DEFAULT_MAX_CONCURRENT, SmallTTL, FALSE),
        FileOf(<<Persisted(1, "lint", HIGH), Persisted(2, "docs", NORMAL),
                 Persisted(3, "audit", NORMAL)>>)>>,
      <<QueueConfig(DEFAULT_MAX_CONCURRENT, SmallTTL, FALSE),
        FileOf(<<Persisted(1, "lint", NORMAL), Persisted(2, "docs", HIGH),
                 Persisted(3, "audit", NORMAL)>>)>>,
      <<QueueConfig(DEFAULT_MAX_CONCURRENT, SmallTTL, FALSE), FileAbsent>> }

PickPriorities == {HIGH, NORMAL}

\* restore() is called at any moment of a queue that callers feed; scans
\* succeed
NextPick ==
    \/ /\ nextId <= MaxTasks
       /\ \E p \in PickPriorities, f \in MainFiles : Enqueue("ghost", p, f)
    \/ \E t \in awaiting : Complete(t, TRUE)
    \/ Tick
    \/ RestoreCall
    \/ RestoreExists
    \/ RestoreRead

SpecPick == InitWith(PickStarts) /\ [][NextPick]_vars

InQueue(q, id) == \E k \in 1..Len(q) : q[k].id = id
PosIn(q, id) == CHOOSE k \in 1..Len(q) : q[k].id = id

\* C34: the task the executor picks has the least numeric priority of the
\* tasks queued at that moment and stood in the queue before every other task
\* of its priority; and the tasks of one priority stand in the queue in the
\* order in which they entered it, by enqueue or by restore, the restored
\* ones among themselves in the order of the file.
C34_PickOrder ==
    /\ [][StartStep =>
            \A i \in 1..Len(queue') :
                \/ Picked.priority < queue'[i].priority
                \/ /\ Picked.priority = queue'[i].priority
                   /\ InQueue(queue, queue'[i].id) =>
                         /\ InQueue(queue, Picked.id)
                         /\ PosIn(queue, Picked.id) < PosIn(queue, queue'[i].id)]_vars
    /\ [][\A i, j \in 1..Len(queue') :
            (i < j /\ queue'[i].priority = queue'[j].priority) =>
                /\ InQueue(queue, queue'[j].id) =>
                      /\ InQueue(queue, queue'[i].id)
                      /\ PosIn(queue, queue'[i].id) < PosIn(queue, queue'[j].id)
                /\ (~InQueue(queue, queue'[i].id) /\ ~InQueue(queue, queue'[j].id)) =>
                      /\ InQueue(restoreRaw', queue'[i].id)
                      /\ InQueue(restoreRaw', queue'[j].id)
                      /\ PosIn(restoreRaw', queue'[i].id) < PosIn(restoreRaw', queue'[j].id)]_vars

\* the executor has picked a restored task of NORMAL priority ahead of a
\* restored one that followed it in the file and of one enqueued since, after
\* a restored task of HIGH priority that followed it in the file
C34_Witness ==
    /\ restorePc = "done"
    /\ StartedIds(events) # <<>>
    /\ Last(StartedIds(events)) = PrevIdBase + 1
    /\ PrevIdBase + 2 \in RangeOf(StartedIds(events))
    /\ \E i, j \in 1..Len(queue) :
          /\ i < j
          /\ queue[i].id = PrevIdBase + 3
          /\ queue[j].id < PrevIdBase
          /\ queue[j].priority = NORMAL

(***************************************************************************)
(* The completion history at its bound (processNext, lines 171-176).       *)
(***************************************************************************)

\* the k-th task of a history the executor built earlier in this process
PastTask(k) ==
    [NewTask(2 * PrevIdBase + k, "lint", NORMAL, NoFiles, ClockStart)
        EXCEPT !.status = "completed"]

\* the lengths the history has when the observation starts: one below the
\* bound, and at the bound
HistoryStarts == {HISTORY_MAX - 1, HISTORY_MAX}

HistoryConfigs ==
    { <<QueueConfig(DEFAULT_MAX_CONCURRENT, SmallTTL, FALSE), FileAbsent>>,
      <<QueueConfig(DEFAULT_MAX_CONCURRENT, 0, FALSE), FileAbsent>> }

\* a queue that has executed HISTORY_MAX - 1 or HISTORY_MAX tasks; the event
\* log is observed from here on
InitHistory ==
    /\ \E st \in HistoryConfigs : config = st[1] /\ file = st[2]
    /\ queue = <<>>
    /\ running = EmptyMap
    /\ \E n \in HistoryStarts : completed = [k \in 1..n |-> PastTask(k)]
    /\ processing = FALSE
    /\ awaiting = {}
    /\ events = <<>>
    /\ clock = ClockStart
    /\ nextId = 1
    /\ pendingSnap = 0
    /\ pendingWrite = {}
    /\ restorePc = "new"
    /\ restoreRaw = <<>>
    /\ restoreRet = 0
    /\ epoch = 0
    /\ sup = [p \in Procs |-> NewSupervisor]
    /\ watcher = NewWatcher
    /\ registry = NewRegistry
    /\ last = NoCall
    /\ scheduler = NewScheduler
    /\ bus = NewBus
    /\ health = NewHealth
    /\ logs = NewLogs
    /\ listener = NoListener
    /\ pidFile = NoPid

\* callers enqueue and clear, scans return or throw, queued tasks grow old
NextHistory ==
    \/ /\ nextId <= MaxTasks
       /\ \E s \in MainScanners, f \in MainFiles : Enqueue(s, NORMAL, f)
    \/ \E t \in awaiting, ok \in BOOLEAN : Complete(t, ok)
    \/ Clear
    \/ Tick

SpecHistory == InitHistory /\ [][NextHistory]_vars

\* the ids of the history
HistoryIds(hist) == {hist[k].id : k \in 1..Len(hist)}

\* the ids of the tasks that left the queue by expiry
ExpiredIds(evs) == {evs[k].taskId : k \in ExpiredAt(evs)}

\* C35: the history never holds more than HISTORY_MAX tasks; it changes only
\* when a task ends, by the ended task joining it as its last entry; when that
\* makes HISTORY_MAX + 1 it is cut to the HISTORY_KEEP most recent, in the
\* order of completion; and no task that expired, and no task removed by
\* clear(), is in it.
C35_HistoryBounded ==
    /\ [](Len(completed) <= HISTORY_MAX)
    /\ [](HistoryIds(completed) \cap ExpiredIds(events) = {})
    /\ [][completed' # completed =>
            LET h == Append(completed, completed'[Len(completed')])
                done == completed'[Len(completed')]
            IN  /\ CompleteStep
                /\ done.id = events'[Len(events) + 1].taskId
                /\ done.status \in {"completed", "failed"}
                /\ \E t \in awaiting : t.id = done.id
                /\ IF Len(h) > HISTORY_MAX
                   THEN /\ Len(completed') = HISTORY_KEEP
                        /\ \A k \in 1..HISTORY_KEEP :
                              completed'[k] = h[Len(h) - HISTORY_KEEP + k]
                   ELSE completed' = h]_vars
    /\ [][(queue # <<>> /\ queue' = <<>> /\ ~CompleteStep /\ events' = events) =>
            completed' = completed]_vars

\* the history was cut at the bound when a task of this run ended, and the
\* next task to end has joined it
C35_Witness ==
    /\ Len(completed) = HISTORY_KEEP + 1
    /\ completed[HISTORY_KEEP + 1].id <= MaxTasks
    /\ completed[HISTORY_KEEP].id <= MaxTasks
    /\ completed[1].id > 2 * PrevIdBase + HISTORY_KEEP

(***************************************************************************)
(* Restored tasks and the executor (restore, lines 247-271; the only call  *)
(* of processNext is in enqueue, lines 108-110).                            *)
(***************************************************************************)

\* the supervisor's queue, restored at start and fed by callers that may
\* enqueue afterwards or never; nobody calls clear()
NextRestored ==
    \/ RestoreCall
    \/ RestoreExists
    \/ RestoreRead
    \/ /\ restorePc = "done"
       /\ nextId <= MaxTasks
       /\ Enqueue("lint", NORMAL, NoFiles)
    \/ \E t \in awaiting, ok \in BOOLEAN : Complete(t, ok)
    \/ restorePc = "done" /\ Tick
    \/ PersistSnapshot
    \/ \E snap \in pendingWrite : PersistWrite(snap)

\* the file system answers restore() and persistState(), every scan returns
\* or throws in the end, and time passes; no enqueue is ever required
SpecRestoredFair ==
    /\ InitWith(DefaultStart)
    /\ [][NextRestored]_vars
    /\ WF_vars(RestoreCall \/ RestoreExists \/ RestoreRead)
    /\ WF_vars(\E t \in awaiting, ok \in BOOLEAN : Complete(t, ok))
    /\ WF_vars(PersistSnapshot \/ \E snap \in pendingWrite : PersistWrite(snap))
    /\ WF_vars(restorePc = "done" /\ Tick)

\* the ids of the tasks the earlier process left in queue.json
PersistedIds == {PrevOld.id, PrevFresh.id}

HasTaskEvent(type, id) ==
    \E i \in 1..Len(events) : events[i].type = type /\ events[i].taskId = id

\* C36: a task that restore() has put back into the queue is started or
\* expired in the end, whether or not enqueue is ever called again.
C36_RestoredProgress ==
    \A id \in PersistedIds :
        [](restorePc = "done" /\ InQueue(queue, id) =>
             <>(HasTaskEvent("task:started", id) \/ HasTaskEvent("task:expired", id)))

(***************************************************************************)
(* The executor and the exit during shutdown (stop, lines 218-263; the     *)
(* signal handlers, lines 292-303).                                         *)
(***************************************************************************)

\* the positions of the event log at which a supervisor announced its stop
StoppingAt(evs) == {i \in 1..Len(evs) : evs[i].type = "daemon:stopping"}

\* C37: once daemon:stopping has been emitted no task is started: a task still
\* queued when stop() began is not started while stop() waits for the drain.
C37_NoStartAfterStopping ==
    \A i \in StoppingAt(events) :
        \A j \in (i + 1)..Len(events) : events[j].type # "task:started"

\* C38: whatever the number and timing of termination signals, a process that
\* has exited through its signal handler has finished the stop sequence first:
\* the task in flight at the stop has ended, the final snapshot is saved when
\* there is a result to save, and the PID file is removed.
C38_ExitAfterStop ==
    \A p \in Procs :
        (sup[p].signals > 0 /\ ~sup[p].alive) =>
            /\ sup[p].stop = "done"
            /\ sup[p].inflight \subseteq EndedIds(events)
            /\ HasResults(sup[p]) => "snapshot" \in RangeOf(sup[p].steps)
            /\ pidFile # p
            /\ HasEvent("daemon:stopped", p)

(***************************************************************************)
(* Duplicates in the live set (enqueue, lines 77-89; restore, 247-271).    *)
(***************************************************************************)

\* queue.json as an earlier process left it, or as this process wrote it: one
\* queued lint scan of the whole workspace, younger than the TTL
LiveStarts ==
    { <<QueueConfig(DEFAULT_MAX_CONCURRENT, SmallTTL, FALSE),
        FileOf(<<Persisted(1, "lint", NORMAL)>>)>>,
      <<QueueConfig(DEFAULT_MAX_CONCURRENT, SmallTTL, FALSE), FileAbsent>> }

\* a queue driven by any caller, restore() included, at any moment
SpecLive == InitWith(LiveStarts) /\ [][Next]_vars

\* two tasks that enqueue would coalesce
SameRequest(a, b) == a.scanner = b.scanner /\ sameFiles(a.files, b.files)

\* C39: no two live tasks have the same scanner and an equal file set, after
\* any sequence of enqueue, restore, clear and executor steps; restore() adds
\* no duplicate of a task that is queued or running.
C39_NoLiveDuplicates ==
    /\ \A i, j \in 1..Len(queue) : i # j => ~SameRequest(queue[i], queue[j])
    /\ \A i \in 1..Len(queue) :
          \A k \in DOMAIN running : ~SameRequest(queue[i], running[k])

====
